---- MODULE Spec2Model ----
(***************************************************************************)
(* A model of the docker-stats repository: the rate-limited, retrying      *)
(* REST clients (DockerHubRestApi, GitHubRestApi), their repository cache  *)
(* and paginators, and the snapshot-writing scripts built on them.         *)
(*                                                                         *)
(* Time is counted in ticks of half a second (TicksPerSec ticks make one   *)
(* second), so that min_sleep_time = 0.5 s is one tick and every sleep of  *)
(* the code (whole seconds) is a whole number of ticks.                    *)
(***************************************************************************)
EXTENDS Integers, Sequences, FiniteSets, TLC

\* ------------------------------------------------------------------ bounds
\* The clock value at which the client is constructed.
StartTime == 4
\* The HTTP requests one client issues in a run of the model.
MaxRequests == 4

\* ------------------------------------------------------- program constants
\* Ticks per second of the model clock (min_sleep_time = 0.5 s = 1 tick).
TicksPerSec == 2
\* cache_timeout_sec: int = 300, in seconds.
cache_timeout_sec == 300
\* self.min_sleep_time = 0.5, in ticks.
min_sleep_time == 1
\* max_retries: int = 3, the default every caller inside the repository uses.
DefaultMaxRetries == 3
\* backoff_time = 1, in seconds.
InitialBackoff == 1
\* rate_limit_remaining < 10 triggers the proactive wait of the GitHub client.
RateLimitThreshold == 10

VARIABLES
    api,                  \* "dh": DockerHubRestApi, "gh": GitHubRestApi
    now,                  \* time.time(), in ticks
    last_request_time,    \* self.last_request_time, in ticks
    rate_limit_remaining, \* self.rate_limit_remaining (gh), -1 for None
    rate_limit_reset,     \* self.rate_limit_reset (gh), epoch seconds, -1 for None
    cached_repositories,  \* self.cached_repositories: key -> (time, data)
    mr_pc,                \* _make_request: "idle", "loop", "returned", "raised"
    endpoint,             \* _make_request's argument
    max_retries,          \* _make_request's argument
    retry_count,          \* _make_request's local
    backoff_time,         \* _make_request's local, in seconds
    response,             \* the last response received (NoResponse before any)
    exc,                  \* the exception a raising call ended with ("" for none)
    req_last_start,       \* history: start of the last HTTP request (-1: none)
    req_gap,              \* history: ticks between the starts of the last two
                          \* requests, counted up to min_sleep_time (-1: none)
    requests,             \* history: HTTP requests issued so far
    call_requests,        \* history: HTTP requests issued by the current call
    last_sleep,           \* history: the retry loop's latest sleep in the current
                          \* call, in seconds (-1: none)
    last_reply,           \* history: what answered the latest attempt of the
                          \* current call (NoReply before the first)
    call_bare_429,        \* history: every attempt of the current call got a 429
                          \* without a Retry-After header
    gr_pc,                \* get_repository / get_repo: "idle", "fetching",
                          \* "returned", "raised"
    gr_repo,              \* its argument: the key, <<owner, name>> for "owner/name"
    gr_use_cache,         \* its argument use_cache (always TRUE for get_repo)
    gr_curr_time,         \* its local curr_time
    result,               \* what the latest call of a client method returned
    gr_prev,              \* history: the cache entry of the key when the call began
    gr_requests,          \* history: HTTP requests issued before the call began
    pg_pc,                \* the paginated fetch: "idle", "fetching", "returned",
                          \* "raised"
    pg_call,              \* "get_all_repos" (get_all_repos_for_namespace,
                          \* get_all_repos_for_user) or "get_paginated"
    pg_items,             \* repos / the items yielded so far
    pg_page,              \* current_page: the page fetches begun
    pg_max_pages,         \* its argument max_pages (gh), -1 for None
    pg_served,            \* history: the pages the server sent to this fetch
    pg_requests,          \* history: HTTP requests issued before the fetch began
    pg_clean,             \* history: every attempt of this fetch got a page
    pg_urls,              \* history: the endpoints this fetch has requested, one
                          \* for each page fetch begun
    script,               \* the script that runs: "dockerhub"
                          \* (fetch-dockerhub-stats.py), "github"
                          \* (fetch-github-stats.py), "legacy" (fetch_stats.py),
                          \* "analytics" (fetch-google-analytics-stats.py);
                          \* "none" where a client is used without one
    run_pc,               \* main: "idle", "started", "listing", "loop",
                          \* "calling", "reporting", "done", "aborted"
    file,                 \* the snapshot file on disk (NoSnapshot: no file)
    old_stats,            \* main's old_stats
    repos,                \* main's repos / repo_names: the keys to process
    idx,                  \* the loop's position in repos
    step,                 \* the accessor call the loop body is at
    rec,                  \* the stats the loop body has fetched of one repo
    sums,                 \* sum_pulls, sum_stars, ...: by the name of the total
    new_repositories,     \* main's new_repositories
    runs,                 \* history: the runs begun
    stalls,               \* history: the times a run was suspended for as long
                          \* as the cache timeout
    failed,               \* history: the keys whose fetch raised in this run,
                          \* with the message
    prev_fetched,         \* history: records and totals of the preceding
                          \* snapshot
    change_time,          \* history: the time of the last run whose records or
                          \* totals differed from those of the run before
    session,              \* self.session: "open", "closed"; "none" while no
                          \* client is constructed
    scope_pc,             \* the with statement a client is used in: "outside",
                          \* "inside", "left"
    scope_raised,         \* history: the exception raised inside the with
                          \* statement ("" for none)
    scope_exc,            \* the exception that leaves the with statement ("" for
                          \* none)
    acc_pc,               \* a derived accessor: "idle", "calling", "returned",
                          \* "raised"
    acc_method,           \* the accessor called
    acc_value,            \* what the accessor returned
    ga_pc,                \* get_all_page_views of the Google Analytics client:
                          \* "idle", "reporting", "returned", "raised"
    ga_days,              \* its argument date_range_days (None: all time)
    cached_page_views,    \* self.cached_page_views
    cache_timestamp       \* self.cache_timestamp (None until a report is cached)

clientVars == <<api, now, last_request_time, rate_limit_remaining, rate_limit_reset,
               cached_repositories>>
requestVars == <<mr_pc, endpoint, max_retries, retry_count, backoff_time, response, exc>>
historyVars == <<req_last_start, req_gap, requests, call_requests, last_sleep,
                last_reply, call_bare_429>>
cacheVars == <<gr_pc, gr_repo, gr_use_cache, gr_curr_time, gr_prev, gr_requests>>
pageVars == <<pg_pc, pg_call, pg_items, pg_page, pg_max_pages, pg_served, pg_requests,
              pg_clean, pg_urls>>
\* What the layers above the request executor hold.
runVars == <<script, run_pc, file, old_stats, repos, idx, step, rec, sums,
             new_repositories, runs, stalls, failed, prev_fetched, change_time>>
scopeVars == <<session, scope_pc, scope_raised, scope_exc>>
accVars == <<acc_pc, acc_method, acc_value>>
\* What a caller of the client holds beside it.
gaVars == <<ga_pc, ga_days, cached_page_views, cache_timestamp>>
callerVars == <<scopeVars, accVars, gaVars>>
upperVars == <<result, cacheVars, pageVars, runVars, callerVars>>
vars == <<clientVars, requestVars, historyVars, upperVars>>

None == -1

Min(a, b) == IF a < b THEN a ELSE b

\* ------------------------------------------------------------ header values
\* A header value is a string, modelled as a sequence of characters.
DigitValue == [c \in {"0", "1", "2", "3", "4", "5", "6", "7", "8", "9"} |->
    CASE c = "0" -> 0 [] c = "1" -> 1 [] c = "2" -> 2 [] c = "3" -> 3 [] c = "4" -> 4
      [] c = "5" -> 5 [] c = "6" -> 6 [] c = "7" -> 7 [] c = "8" -> 8 [] c = "9" -> 9]

\* Whether int(s) succeeds: a non-empty string of decimal digits.
IsIntString(s) == Len(s) > 0 /\ \A i \in 1..Len(s) : s[i] \in DOMAIN DigitValue

\* int(s) for a string of decimal digits.
RECURSIVE IntOf(_)
IntOf(s) == IF Len(s) = 0 THEN 0
            ELSE 10 * IntOf(SubSeq(s, 1, Len(s) - 1)) + DigitValue[s[Len(s)]]

\* Python's truth value of a header read with headers.get(name): None and the
\* empty string are false, every other string (also "0") is true.
HasHeader(r, name) == name \in DOMAIN r.headers
Truthy(r, name) == HasHeader(r, name) /\ Len(r.headers[name]) > 0

NoHeaders == <<>>
NoBody == <<>>
NoResponse == [status |-> 0, headers |-> NoHeaders, body |-> NoBody]
NoReply == [kind |-> "none", status |-> 0, headers |-> NoHeaders]

\* ----------------------------------------------------------- the environment
\* What the server may answer to one attempt. A transport failure
\* (ConnectionError, Timeout) has no response: kind = "transport".
RetryAfterValues == {<<>>, <<"0">>, <<"2">>, <<"x">>}

RateLimitHeaders ==
    { NoHeaders,
      [x_ratelimit_remaining |-> <<"5">>, x_ratelimit_reset |-> <<"1", "2">>],
      [x_ratelimit_remaining |-> <<"5", "0">>, x_ratelimit_reset |-> <<"1", "2">>] }

Statuses == {200, 403, 404, 429, 500}

\* The server sends Retry-After with the statuses the client reads it from.
RetryAfterStatuses(a) == IF a = "gh" THEN {403, 429} ELSE {429}

WithRetryAfter(h) == {h} \cup {[retry_after |-> v] @@ h : v \in RetryAfterValues}

ResponseHeaders(a) ==
    IF a = "gh" THEN UNION {WithRetryAfter(h) : h \in RateLimitHeaders}
    ELSE WithRetryAfter(NoHeaders)

RepliesOf(a) ==
    {[kind |-> "transport", status |-> 0, headers |-> NoHeaders]}
    \cup {r \in [kind : {"response"}, status : Statuses, headers : ResponseHeaders(a)] :
             "retry_after" \in DOMAIN r.headers => r.status \in RetryAfterStatuses(a)}

DockerHubReplies == RepliesOf("dh")
GitHubReplies == RepliesOf("gh")
Replies(a) == IF a = "gh" THEN GitHubReplies ELSE DockerHubReplies

\* A URL or an endpoint: host is the scheme and host ("" for a relative one),
\* path the sequence of the segments, query the sequence of key and value.
\* NoUrl is the empty string, and stands for None as well: both are false.
NoUrl == [host |-> "", path |-> <<>>, query |-> <<>>]
PathUrl(path) == [host |-> "", path |-> path, query |-> <<>>]
AnyEndpoint == PathUrl(<<"v2", "repositories", "ns", "a">>)

\* The cache: a mapping from keys to entries (time, data); dict.get gives None
\* for a key that is absent.
NoEntries == <<>>
NoEntry == [time |-> None, data |-> NoBody]
CacheGet(cache, key) == IF key \in DOMAIN cache THEN cache[key] ELSE NoEntry
CachePut(cache, key, entry) == [k \in DOMAIN cache \cup {key} |->
                                   IF k = key THEN entry ELSE cache[k]]

\* How long one HTTP exchange takes, in ticks.
Durations == {0, 1}

\* How long a caller lets pass between two calls, in ticks: none, or enough
\* for the spacing rule to be met already.
Delays == {0, min_sleep_time}

\* The max_retries a caller passes: the default (every caller inside the
\* repository), or none at all.
RetryArgs == {0, DefaultMaxRetries}

\* ------------------------------------------------------- the request executor
\* _sleep_between_requests: the time at which it returns when called at time t.
SleepBetweenRequests(t, lrt) ==
    LET elapsed == t - lrt
    IN  IF elapsed < min_sleep_time THEN t + (min_sleep_time - elapsed) ELSE t

\* _check_rate_limit (GitHub): the time at which it returns when called at time t.
\* wait_time = rate_limit_reset - time.time(); time.sleep(wait_time + 1).
CheckRateLimit(t, remaining, reset) ==
    IF remaining # None /\ remaining < RateLimitThreshold /\ reset # None /\ reset # 0
       /\ reset * TicksPerSec - t > 0
    THEN t + (reset * TicksPerSec - t) + TicksPerSec
    ELSE t

\* The part of _make_request before its retry loop.
RequestPrelude(a, t, lrt, remaining, reset) ==
    IF a = "gh" THEN CheckRateLimit(SleepBetweenRequests(t, lrt), remaining, reset)
    ELSE SleepBetweenRequests(t, lrt)

IsRateLimited429Only(a, status) == status = 429

\* The statuses the client takes for a rate-limit signal.
IsRateLimited(a, status) ==
    IF a = "gh" THEN status \in {403, 429} ELSE status = 429

\* response.raise_for_status() raises HTTPError (a RequestException).
RaisesForStatus(status) == status >= 400 /\ status < 600

\* int(retry_after) raises ValueError for a string that is no integer.
WaitRaises(r) == Truthy(r, "retry_after") /\ ~IsIntString(r.headers.retry_after)

WaitTimeIgnoringHeader(r, backoff) == backoff

\* wait_time of a rate-limited response, in seconds.
WaitTime(r, backoff) ==
    IF Truthy(r, "retry_after") THEN IntOf(r.headers.retry_after) ELSE backoff

NextBackoffLinear(backoff) == backoff + 1

\* backoff_time *= 2
NextBackoff(backoff) == backoff * 2

\* int(response.headers.get(name, 0)) of _update_rate_limit_info.
HeaderInt(r, name) == IF HasHeader(r, name) THEN IntOf(r.headers[name]) ELSE 0

\* _update_rate_limit_info runs on every response of the GitHub client only.
UpdateRateLimitInfo(r) ==
    IF api = "gh"
    THEN /\ rate_limit_remaining' = HeaderInt(r, "x_ratelimit_remaining")
         /\ rate_limit_reset' = HeaderInt(r, "x_ratelimit_reset")
    ELSE UNCHANGED <<rate_limit_remaining, rate_limit_reset>>

\* time.sleep(secs) started at time t ends at:
Slept(t, secs) == t + secs * TicksPerSec

\* Entry of _make_request(method, endpoint, max_retries = mr): the spacing
\* sleep, the quota guard, and the loop's locals.
MakeRequestBegin(t, ep, mr) ==
    /\ now' = RequestPrelude(api, t, last_request_time, rate_limit_remaining,
                             rate_limit_reset)
    /\ mr_pc' = "loop"
    /\ endpoint' = ep
    /\ max_retries' = mr
    /\ retry_count' = 0
    /\ backoff_time' = InitialBackoff
    /\ exc' = ""
    /\ response' = NoResponse
    /\ call_requests' = 0
    /\ last_sleep' = None
    /\ last_reply' = NoReply
    /\ call_bare_429' = TRUE
    /\ UNCHANGED <<api, last_request_time, rate_limit_remaining, rate_limit_reset,
                   cached_repositories, req_last_start, req_gap, requests>>

HandleRequestExceptionUncounted(t, name) ==
    IF retry_count > max_retries
    THEN /\ mr_pc' = "raised"
         /\ exc' = name
         /\ now' = t
         /\ UNCHANGED <<retry_count, backoff_time, last_sleep>>
    ELSE /\ mr_pc' = "loop"
         /\ exc' = ""
         /\ now' = Slept(t, backoff_time)
         /\ retry_count' = retry_count
         /\ backoff_time' = NextBackoff(backoff_time)
         /\ last_sleep' = backoff_time

\* The except clause of the retry loop, entered at time t.
HandleRequestException(t, name) ==
    IF retry_count + 1 > max_retries
    THEN /\ mr_pc' = "raised"
         /\ exc' = name
         /\ now' = t
         /\ retry_count' = retry_count + 1
         /\ UNCHANGED <<backoff_time, last_sleep>>
    ELSE /\ mr_pc' = "loop"
         /\ exc' = ""
         /\ now' = Slept(t, backoff_time)
         /\ retry_count' = retry_count + 1
         /\ backoff_time' = NextBackoff(backoff_time)
         /\ last_sleep' = backoff_time

\* One pass of the retry loop: the request is issued at time now, takes d ticks
\* and is answered by reply, whose body is body.
Attempt(d, reply, body) ==
    /\ mr_pc = "loop"
    /\ retry_count <= max_retries
    /\ req_gap' = IF req_last_start = None THEN None ELSE Min(now - req_last_start, min_sleep_time)
    /\ req_last_start' = now
    /\ requests' = requests + 1
    /\ call_requests' = call_requests + 1
    /\ last_reply' = reply
    /\ call_bare_429' = (call_bare_429 /\ reply.kind = "response" /\ reply.status = 429
                         /\ ~HasHeader(reply, "retry_after"))
    /\ UNCHANGED <<api, cached_repositories, endpoint, max_retries>>
    /\ IF reply.kind = "transport"
       THEN \* session.request raised: last_request_time is not assigned
            /\ HandleRequestException(now + d, "RequestException")
            /\ UNCHANGED <<last_request_time, rate_limit_remaining, rate_limit_reset,
                           response>>
       ELSE /\ response' = [status |-> reply.status, headers |-> reply.headers,
                             body |-> body]
            /\ last_request_time' = now + d
            /\ UpdateRateLimitInfo(reply)
            /\ IF IsRateLimited(api, reply.status)
               THEN IF WaitRaises(reply)
                    THEN /\ mr_pc' = "raised"
                         /\ exc' = "ValueError"
                         /\ now' = now + d
                         /\ UNCHANGED <<retry_count, backoff_time, last_sleep>>
                    ELSE \* after the sleep the loop condition retry_count <=
                         \* max_retries is tested again: when it fails, the
                         \* raise that follows the loop ends the call
                         /\ mr_pc' = IF retry_count + 1 > max_retries
                                     THEN "raised" ELSE "loop"
                         /\ exc' = IF retry_count + 1 > max_retries
                                   THEN "HTTPError" ELSE ""
                         /\ now' = Slept(now + d, WaitTime(reply, backoff_time))
                         /\ retry_count' = retry_count + 1
                         /\ backoff_time' = NextBackoff(backoff_time)
                         /\ last_sleep' = WaitTime(reply, backoff_time)
               ELSE IF RaisesForStatus(reply.status)
                    THEN HandleRequestException(now + d, "HTTPError")
                    ELSE /\ mr_pc' = "returned"
                         /\ exc' = ""
                         /\ now' = now + d
                         /\ UNCHANGED <<retry_count, backoff_time, last_sleep>>

\* The caller has taken the result of _make_request: its locals are gone (the
\* response and the exception stay with the caller).
RequestFrameLeft ==
    /\ mr_pc' = "idle"
    /\ retry_count' = 0
    /\ backoff_time' = InitialBackoff
    /\ call_requests' = 0
    /\ last_sleep' = None
    /\ last_reply' = NoReply
    /\ call_bare_429' = TRUE
    /\ UNCHANGED <<endpoint, max_retries, response, exc, req_last_start, req_gap, requests>>

\* -------------------------------------------- the client called directly
\* A caller of the verb methods (get, post, put, delete) or of _make_request.
\* The call starts delay ticks after the previous one ended.
DirectCall(mr, delay) ==
    /\ mr_pc \in {"idle", "returned", "raised"}
    /\ requests < MaxRequests
    /\ MakeRequestBegin(now + delay, AnyEndpoint, mr)
    /\ UNCHANGED upperVars

SomeAttempt ==
    /\ requests < MaxRequests
    /\ \E d \in Durations, reply \in Replies(api) : Attempt(d, reply, NoBody)
    /\ UNCHANGED upperVars

InitClient ==
    /\ api \in {"dh", "gh"}
    /\ now = StartTime
    /\ last_request_time = 0
    /\ rate_limit_remaining = None
    /\ rate_limit_reset = None
    /\ cached_repositories = NoEntries

InitRequest ==
    /\ mr_pc = "idle"
    /\ endpoint = AnyEndpoint
    /\ max_retries = DefaultMaxRetries
    /\ retry_count = 0
    /\ backoff_time = InitialBackoff
    /\ response = NoResponse
    /\ exc = ""
    /\ req_last_start = None
    /\ req_gap = None
    /\ requests = 0
    /\ call_requests = 0
    /\ last_sleep = None
    /\ last_reply = NoReply
    /\ call_bare_429 = TRUE

InitCache ==
    /\ gr_pc = "idle"
    /\ gr_repo = <<"", "">>
    /\ gr_use_cache = TRUE
    /\ gr_curr_time = 0
    /\ result = NoBody
    /\ gr_prev = NoEntry
    /\ gr_requests = 0

InitPage ==
    /\ pg_pc = "idle"
    /\ pg_call = "get_all_repos"
    /\ pg_items = <<>>
    /\ pg_page = 0
    /\ pg_max_pages = None
    /\ pg_served = <<>>
    /\ pg_requests = 0
    /\ pg_clean = TRUE
    /\ pg_urls = <<>>

\* {} (an empty dict), also for a snapshot file that does not exist.
NoSnapshot == <<>>

\* No script runs: the client is used on its own.
InitNoRun ==
    /\ script = "none"
    /\ run_pc = "idle"
    /\ file = NoSnapshot
    /\ old_stats = NoSnapshot
    /\ repos = <<>>
    /\ idx = 1
    /\ step = 1
    /\ rec = <<>>
    /\ sums = <<>>
    /\ new_repositories = <<>>
    /\ runs = 0
    /\ stalls = 0
    /\ failed = <<>>
    /\ prev_fetched = <<>>
    /\ change_time = <<>>

\* The client is constructed (self.session = requests.Session()) and is used
\* outside a with statement so far; no accessor has been called.
InitCaller ==
    /\ session = "open"
    /\ scope_pc = "outside"
    /\ scope_raised = ""
    /\ scope_exc = ""
    /\ acc_pc = "idle"
    /\ acc_method = ""
    /\ acc_value = None
    /\ ga_pc = "idle"
    /\ ga_days = None
    /\ cached_page_views = <<>>
    /\ cache_timestamp = None

Init == InitClient /\ InitRequest /\ InitCache /\ InitPage /\ InitNoRun /\ InitCaller

Next ==
    \/ \E mr \in RetryArgs, delay \in Delays : DirectCall(mr, delay)
    \/ SomeAttempt

Spec == Init /\ [][Next]_vars

\* ------------------------------------------------------ the repository cache
\* The keys "owner/name" the callers ask for.
Repos == {<<"ns", "a">>, <<"ns", "b">>}

\* f"/v2/repositories/{repo}" (Docker Hub), f"/repos/{owner}/{repo}" (GitHub).
RepoEndpoint(a, repo) ==
    IF a = "gh" THEN PathUrl(<<"repos", repo[1], repo[2]>>)
    ELSE PathUrl(<<"v2", "repositories", repo[1], repo[2]>>)

\* The bodies the server may send for a repository: its counter moves.
PullCounts == {5, 6}
RepoBodies(a, repo) ==
    IF a = "gh"
    THEN {[name |-> repo[2], stargazers_count |-> n] : n \in PullCounts}
    ELSE {[namespace |-> repo[1], name |-> repo[2], pull_count |-> n] : n \in PullCounts}

\* The replies and the pauses between calls the cache is exercised with: an
\* entry is as old as the timeout, or one tick younger.
CacheReplies(a) ==
    {r \in Replies(a) : r.headers = NoHeaders /\ r.status \in {0, 200, 404}}
CacheDelays == {0, cache_timeout_sec * TicksPerSec - 1, cache_timeout_sec * TicksPerSec}
CacheDurations == {0}

FreshStrict(curr_time, cached_time) ==
    curr_time - cached_time <= cache_timeout_sec * TicksPerSec

\* curr_time - cached_time < self.cache_timeout_sec
Fresh(curr_time, cached_time) ==
    curr_time - cached_time < cache_timeout_sec * TicksPerSec

CacheHitAnyCaller(cache, repo, use_cache, curr_time) ==
    /\ repo \in DOMAIN cache
    /\ Fresh(curr_time, cache[repo].time)

\* if use_cache and cached: ... return data  (get_repo has no use_cache)
CacheHit(cache, repo, use_cache, curr_time) ==
    /\ use_cache
    /\ repo \in DOMAIN cache
    /\ Fresh(curr_time, cache[repo].time)

\* get_repository(repo, use_cache) of the Docker Hub client and get_repo(repo)
\* of the GitHub client, called delay ticks after the previous call ended.
GetRepository(repo, use_cache, delay) ==
    /\ gr_pc \in {"idle", "returned", "raised"}
    /\ mr_pc # "loop"
    /\ api = "gh" => use_cache
    /\ gr_repo' = repo
    /\ gr_use_cache' = use_cache
    /\ gr_curr_time' = now + delay
    /\ gr_prev' = CacheGet(cached_repositories, repo)
    /\ gr_requests' = requests
    /\ IF CacheHit(cached_repositories, repo, use_cache, now + delay)
       THEN /\ gr_pc' = "returned"
            /\ result' = cached_repositories[repo].data
            /\ now' = now + delay
            /\ UNCHANGED <<api, last_request_time, rate_limit_remaining, rate_limit_reset,
                           cached_repositories, requestVars, historyVars>>
       ELSE /\ gr_pc' = "fetching"
            /\ MakeRequestBegin(now + delay, RepoEndpoint(api, repo), DefaultMaxRetries)
            /\ UNCHANGED result

\* data = response.json(); self.cached_repositories[repo] = (curr_time, data)
GetRepositoryStore ==
    /\ gr_pc = "fetching"
    /\ mr_pc = "returned"
    /\ cached_repositories' = CachePut(cached_repositories, gr_repo,
                                       [time |-> gr_curr_time, data |-> response.body])
    /\ result' = response.body
    /\ gr_pc' = "returned"
    /\ RequestFrameLeft
    /\ UNCHANGED <<api, now, last_request_time, rate_limit_remaining, rate_limit_reset,
                   gr_repo, gr_use_cache, gr_curr_time, gr_prev, gr_requests>>

GetRepositoryRaiseEvicts ==
    /\ gr_pc = "fetching"
    /\ mr_pc = "raised"
    /\ gr_pc' = "raised"
    /\ cached_repositories' = [k \in DOMAIN cached_repositories \ {gr_repo} |->
                                   cached_repositories[k]]
    /\ RequestFrameLeft
    /\ UNCHANGED <<api, now, last_request_time, rate_limit_remaining, rate_limit_reset,
                   gr_repo, gr_use_cache, gr_curr_time, result, gr_prev, gr_requests>>

\* The exception of _make_request leaves get_repository.
GetRepositoryRaise ==
    /\ gr_pc = "fetching"
    /\ mr_pc = "raised"
    /\ gr_pc' = "raised"
    /\ RequestFrameLeft
    /\ UNCHANGED <<clientVars, gr_repo, gr_use_cache, gr_curr_time, result, gr_prev,
                   gr_requests>>

\* The server's answer to the request of get_repository.
CacheAttemptOf(replies) ==
    /\ gr_pc = "fetching"
    /\ \E d \in CacheDurations, reply \in replies :
          \E body \in (IF reply.status = 200 THEN RepoBodies(api, gr_repo) ELSE {NoBody}) :
              Attempt(d, reply, body)
    /\ UNCHANGED upperVars

CacheAttempt ==
    /\ requests < MaxRequests
    /\ CacheAttemptOf(CacheReplies(api))

CacheCall ==
    /\ \E repo \in Repos, use_cache \in BOOLEAN, delay \in CacheDelays :
           GetRepository(repo, use_cache, delay)
    /\ gr_pc' = "fetching" => requests < MaxRequests
    /\ UNCHANGED <<pageVars, runVars, callerVars>>

CacheNext ==
    \/ CacheCall
    \/ CacheAttempt
    \/ GetRepositoryStore /\ UNCHANGED <<pageVars, runVars, callerVars>>
    \/ GetRepositoryRaise /\ UNCHANGED <<pageVars, runVars, callerVars>>

CacheSpec == Init /\ [][CacheNext]_vars

\* ------------------------------------------------------------ the paginators
\* self.base_url
BaseUrl(a) == IF a = "gh" THEN "https://api.github.com" ELSE "https://hub.docker.com"

\* The namespace / owner the listings are made for.
Owner == "ns"

\* f"/v2/repositories/{namespace}/" (Docker Hub), f"/users/{owner}/repos" (GitHub).
ListEndpoint(a) ==
    IF a = "gh" THEN PathUrl(<<"users", Owner, "repos">>)
    ELSE PathUrl(<<"v2", "repositories", Owner, "">>)

\* The absolute URL of page n of the listing, as the server writes it.
PageUrl(a, n) == [host |-> BaseUrl(a), path |-> ListEndpoint(a).path,
                  query |-> <<"page", n>>]

\* The page a request asks for.
PageOf(url) == IF url.query = <<>> THEN 1 ELSE url.query[2]

\* One repository body as the listing sends it.
ListedBody(a, repo, n) ==
    IF a = "gh" THEN [name |-> repo[2], stargazers_count |-> n]
    ELSE [namespace |-> repo[1], name |-> repo[2], pull_count |-> n]

\* The items of one page.
PageResults(a) ==
    LET A(n) == ListedBody(a, <<Owner, "a">>, n)
        B(n) == ListedBody(a, <<Owner, "b">>, n)
    IN  {<<>>, <<A(5)>>, <<B(6), A(6)>>}

\* The Link header of a GitHub page: a sequence of <url>; rel="..." values.
\* The next link leads to the following page, or back to the first one.
LinkHeaders(a, n) ==
    { <<[url |-> PageUrl(a, n + 1), rel |-> "next"],
        [url |-> PageUrl(a, n + 1), rel |-> "last"]>>,
      <<[url |-> PageUrl(a, 1), rel |-> "first"]>>,
      <<[url |-> PageUrl(a, 1), rel |-> "next"]>> }

\* The pages the server may answer the request for url with: Docker Hub puts
\* the link in the body field next (the URL of the following page or of the
\* first one, null, or no field at all), GitHub
\* sends a list and a Link header (with rel="next", without, or none).
\* A JSON list is [list |-> items], a JSON object is a record of its fields.
PagesFor(a, url, results) ==
    IF a = "gh"
    THEN {[body |-> [list |-> items], headers |-> h] :
             items \in results,
             h \in {NoHeaders} \cup {[link |-> l] : l \in LinkHeaders(a, PageOf(url))}}
         \cup {[body |-> [message |-> "m"], headers |-> NoHeaders]}
    ELSE {[body |-> b, headers |-> NoHeaders] :
             b \in UNION {{[results |-> items, next |-> PageUrl(a, PageOf(url) + 1)],
                           [results |-> items, next |-> PageUrl(a, 1)],
                           [results |-> items, next |-> NoUrl],
                           [results |-> items]} : items \in results}}

\* links = {}; for link in link_header.split(','): ... links[rel] = url
RECURSIVE ParseLinks(_)
ParseLinks(link_header) ==
    IF Len(link_header) = 0 THEN <<>>
    ELSE LET links == ParseLinks(SubSeq(link_header, 1, Len(link_header) - 1))
             link == link_header[Len(link_header)]
         IN  [rel \in DOMAIN links \cup {link.rel} |->
                 IF rel = link.rel THEN link.url ELSE links[rel]]

\* parsed.path + ('?' + parsed.query if parsed.query else '')
PathAndQuery(url) == [host |-> "", path |-> url.path, query |-> url.query]

\* The URL of the following page as the paginator takes it from a response.
NextUrl(a, r) ==
    IF a = "gh"
    THEN IF Truthy(r, "link")
         THEN LET links == ParseLinks(r.headers.link)
              IN  IF "next" \in DOMAIN links THEN links["next"] ELSE NoUrl
         ELSE NoUrl
    ELSE LET url == IF "next" \in DOMAIN r.body THEN r.body.next ELSE NoUrl
         IN  IF url # NoUrl /\ url.host # "" THEN PathAndQuery(url) ELSE url

\* The items the paginator takes from a page: data.get('results', []) (Docker
\* Hub); the list itself, or the object as one item (GitHub).
PageItems(a, body) ==
    IF a = "gh" THEN (IF "list" \in DOMAIN body THEN body.list ELSE <<body>>)
    ELSE (IF "results" \in DOMAIN body THEN body.results ELSE <<>>)

ExtendFront(items, results) == results \o items

\* repos.extend(results); list(generator)
Extend(items, results) == items \o results

ContinuePagingInclusive(a, url, page, maxp) ==
    /\ url # NoUrl
    /\ a = "gh" => (maxp = None \/ page <= maxp)

\* while url (Docker Hub);
\* while next_url and (max_pages is None or current_page < max_pages) (GitHub)
ContinuePaging(a, url, page, maxp) ==
    /\ url # NoUrl
    /\ a = "gh" => (maxp = None \/ page < maxp)

\* Whether the listing caches an item, and under which key.
Cacheable(a, item) ==
    /\ "name" \in DOMAIN item /\ item.name # ""
    /\ a # "gh" => ("namespace" \in DOMAIN item /\ item.namespace # "")
CacheKey(a, item) == IF a = "gh" THEN <<Owner, item.name>> ELSE <<item.namespace, item.name>>

CacheAllNothing(a, cache, items, curr_time) == cache

\* for repo_data in repos: ... self.cached_repositories[key] = (curr_time, repo_data)
RECURSIVE CacheAll(_, _, _, _)
CacheAll(a, cache, items, curr_time) ==
    IF Len(items) = 0 THEN cache
    ELSE CacheAll(a,
                  IF Cacheable(a, Head(items))
                  THEN CachePut(cache, CacheKey(a, Head(items)),
                                [time |-> curr_time, data |-> Head(items)])
                  ELSE cache,
                  Tail(items), curr_time)

\* The max_pages a caller of get_paginated passes.
MaxPagesArgs == {None, 2}

\* Entry of a paginated fetch, delay ticks after the previous call ended:
\* get_all_repos_for_namespace / get_all_repos_for_user (call =
\* "get_all_repos"), or get_paginated(endpoint, max_pages = maxp) of the GitHub
\* client, up to the first page request.
PaginateBegin(call, maxp, delay) ==
    /\ pg_pc \in {"idle", "returned", "raised"}
    /\ mr_pc # "loop"
    /\ gr_pc # "fetching"
    /\ call = "get_paginated" => api = "gh"
    /\ call = "get_all_repos" => maxp = None
    /\ pg_call' = call
    /\ pg_max_pages' = maxp
    /\ pg_items' = <<>>
    /\ pg_served' = <<>>
    /\ pg_requests' = requests
    /\ pg_clean' = TRUE
    /\ IF ContinuePaging(api, ListEndpoint(api), 0, maxp)
       THEN /\ pg_pc' = "fetching"
            /\ pg_page' = 1
            /\ pg_urls' = <<ListEndpoint(api)>>
            /\ MakeRequestBegin(now + delay, ListEndpoint(api), DefaultMaxRetries)
            /\ UNCHANGED result
       ELSE /\ pg_pc' = "returned"
            /\ pg_page' = 0
            /\ pg_urls' = <<>>
            /\ result' = <<>>
            /\ now' = now + delay
            /\ UNCHANGED <<api, last_request_time, rate_limit_remaining, rate_limit_reset,
                           cached_repositories, requestVars, historyVars>>

\* A page has arrived: its items are taken, and either the following page is
\* requested or the fetch ends (the listings then cache what they return).
PaginatePage ==
    /\ pg_pc = "fetching"
    /\ mr_pc = "returned"
    /\ LET items == Extend(pg_items, PageItems(api, response.body))
           url == NextUrl(api, response)
       IN  /\ pg_items' = items
           /\ pg_served' = Append(pg_served, [body |-> response.body,
                                              headers |-> response.headers])
           /\ IF ContinuePaging(api, url, pg_page, pg_max_pages)
              THEN /\ pg_page' = pg_page + 1
                   /\ pg_urls' = Append(pg_urls, url)
                   /\ MakeRequestBegin(now, url, DefaultMaxRetries)
                   /\ UNCHANGED <<pg_pc, result>>
              ELSE /\ pg_pc' = "returned"
                   /\ result' = items
                   /\ cached_repositories' =
                          IF pg_call = "get_all_repos"
                          THEN CacheAll(api, cached_repositories, items, now)
                          ELSE cached_repositories
                   /\ RequestFrameLeft
                   /\ UNCHANGED <<api, now, last_request_time, rate_limit_remaining,
                                  rate_limit_reset, pg_page, pg_urls>>
    /\ UNCHANGED <<pg_call, pg_max_pages, pg_requests, pg_clean>>

\* The exception of a page request leaves the paginated fetch.
PaginateRaise ==
    /\ pg_pc = "fetching"
    /\ mr_pc = "raised"
    /\ pg_pc' = "raised"
    /\ RequestFrameLeft
    /\ UNCHANGED <<clientVars, result, pg_call, pg_items, pg_page, pg_max_pages,
                   pg_served, pg_requests, pg_clean, pg_urls>>

\* The server's answer to a page request: a page, or a failure.
PageReplies(a) == {r \in Replies(a) : r.headers = NoHeaders /\ r.status \in {0, 404}}
PageDurations == {0}

PageAttemptOf(pages, replies) ==
    /\ pg_pc = "fetching"
    /\ \/ \E d \in PageDurations, page \in pages :
              /\ Attempt(d, [kind |-> "response", status |-> 200,
                             headers |-> page.headers], page.body)
              /\ pg_clean' = pg_clean
       \/ \E d \in PageDurations, reply \in replies :
              /\ Attempt(d, reply, NoBody)
              /\ pg_clean' = FALSE
    /\ UNCHANGED <<result, cacheVars, pg_pc, pg_call, pg_items, pg_page, pg_max_pages,
                   pg_served, pg_requests, pg_urls, runVars, callerVars>>

PageAttempt ==
    /\ requests < MaxRequests
    /\ PageAttemptOf(PagesFor(api, endpoint, PageResults(api)), PageReplies(api))

PageCall ==
    /\ \/ \E delay \in Delays : PaginateBegin("get_all_repos", None, delay)
       \/ \E maxp \in MaxPagesArgs, delay \in Delays :
              PaginateBegin("get_paginated", maxp, delay)
    /\ pg_pc' = "fetching" => requests < MaxRequests
    /\ UNCHANGED <<cacheVars, runVars, callerVars>>

PageNext ==
    \/ PageCall
    \/ PageAttempt
    \/ PaginatePage /\ UNCHANGED <<cacheVars, runVars, callerVars>>
    \/ PaginateRaise /\ UNCHANGED <<cacheVars, runVars, callerVars>>

PageSpec == Init /\ [][PageNext]_vars

\* ------------------------------------------------------ the snapshot scripts
\* The runs of a script, and the times a run is suspended for as long as the
\* cache timeout, in one behaviour.
MaxRuns == 3
MaxStalls == 1

Scripts == {"dockerhub", "github", "legacy"}

\* dh_api.DockerHubRestApi() / gh_api.GitHubRestApi(owner = ...); fetch_stats.py
\* has no client (api is not used by it).
ApiOf(s) == IF s = "github" THEN "gh" ELSE "dh"

\* d.get(key, default) and d[key] = value of a dict.
Get(d, key, default) == IF key \in DOMAIN d THEN d[key] ELSE default
SetItem(d, key, value) ==
    [k \in DOMAIN d \cup {key} |-> IF k = key THEN value ELSE d[k]]

\* datetime.now(UTC).isoformat() at time t; "T0" is a timestamp no clock gives.
IsoFormat(t) == <<"iso", t>>
T0 == <<"T0">>

\* The accessors each client provides.
ClientMethods(a) ==
    IF a = "gh"
    THEN {"get_repo_star_count", "get_repo_fork_count", "get_repo_watchers_count",
          "get_repo_open_issues_count", "get_repo_description"}
    ELSE {"get_repo_pull_count", "get_repo_description", "get_repo_last_updated",
          "get_repo_star_count"}

\* repo_data.get(field, default) of each accessor.
AccessorField(a, method) ==
    CASE method = "get_repo_pull_count" -> [field |-> "pull_count", default |-> 0]
      [] method = "get_repo_star_count" ->
             [field |-> IF a = "gh" THEN "stargazers_count" ELSE "star_count",
              default |-> 0]
      [] method = "get_repo_fork_count" -> [field |-> "forks_count", default |-> 0]
      [] method = "get_repo_watchers_count" -> [field |-> "watchers_count", default |-> 0]
      [] method = "get_repo_open_issues_count" ->
             [field |-> "open_issues_count", default |-> 0]
      [] method = "get_repo_description" -> [field |-> "description", default |-> ""]
      [] method = "get_repo_last_updated" -> [field |-> "last_updated", default |-> ""]

AccessorValueDefaultOnly(a, method, repo_data) == AccessorField(a, method).default

\* repo_data.get(field, default): what the accessor returns of a body.
AccessorValue(a, method, repo_data) ==
    Get(repo_data, AccessorField(a, method).field, AccessorField(a, method).default)

\* The accessor calls of the loop body of main, in order: the method called,
\* the key of the record its value goes to, and the total it is added to.
Calls(s) ==
    IF s = "dockerhub"
    THEN << [method |-> "get_repo_pull_count", key |-> "pull_count", total |-> "total_pulls"],
            [method |-> "get_repo_star_count", key |-> "star_count", total |-> "total_stars"],
            [method |-> "get_repo_description", key |-> "description", total |-> ""],
            [method |-> "get_repo_last_updated", key |-> "last_updated", total |-> ""] >>
    ELSE IF s = "github"
    THEN << [method |-> "get_repo_star_count", key |-> "stars", total |-> "total_stars"],
            [method |-> "get_repo_fork_count", key |-> "forks", total |-> "total_forks"],
            [method |-> "get_repo_watchers_count", key |-> "watchers",
             total |-> "total_watchers"],
            [method |-> "get_repo_open_issues_count", key |-> "open_issues",
             total |-> "total_open_issues"],
            [method |-> "get_repo_description", key |-> "description", total |-> ""],
            [method |-> "get_repo_last_pushed", key |-> "last_updated", total |-> ""] >>
    ELSE <<>>

\* sum_pulls = 0, sum_stars = 0, ...: fetch_stats.py keeps no sums.
ZeroSums(s) ==
    IF s = "dockerhub" THEN [total_pulls |-> 0, total_stars |-> 0]
    ELSE IF s = "github"
    THEN [total_stars |-> 0, total_forks |-> 0, total_watchers |-> 0,
          total_open_issues |-> 0]
    ELSE <<>>

\* The record fetch_stats.py builds from a body.
LegacyRecord(data) ==
    [pull_count |-> Get(data, "pull_count", 0),
     description |-> Get(data, "description", ""),
     last_updated |-> Get(data, "last_updated", "")]

OnFetchErrorDrop(repositories, repo, message) == repositories

\* except Exception as e: new_repositories[repo] = {"error": str(e)}
OnFetchError(repositories, repo, message) ==
    SetItem(repositories, repo, [error |-> message])

HasChangesRecordsOnly(s, repositories, totals, old) ==
    repositories # Get(old, "repositories", <<>>)

\* has_changes = new_repositories != old_repositories or totals != old_totals;
\* fetch_stats.py compares the repositories only.
HasChanges(s, repositories, totals, old) ==
    \/ repositories # Get(old, "repositories", <<>>)
    \/ s # "legacy" /\ totals # Get(old, "totals", <<>>)

LastUpdatedAlwaysNow(has_changes, old, t) == IsoFormat(t)

LastUpdatedKeptOnChange(has_changes, old, t) ==
    Get(old, "last_updated", IsoFormat(t))

\* datetime.now(UTC).isoformat() if has_changes
\* else old_stats.get("last_updated", datetime.now(UTC).isoformat())
LastUpdated(has_changes, old, t) ==
    IF has_changes THEN IsoFormat(t) ELSE Get(old, "last_updated", IsoFormat(t))

\* stats = {"last_updated": ..., "totals": totals, "repositories": ...};
\* json.dump and json.load keep such a document as it is.
Stats(s, last_updated, totals, repositories) ==
    IF s = "legacy"
    THEN [last_updated |-> last_updated, repositories |-> repositories]
    ELSE [last_updated |-> last_updated, totals |-> totals,
          repositories |-> repositories]

\* Records and totals of a snapshot, for the history.
Fetched(stats) ==
    IF stats = NoSnapshot THEN <<>>
    ELSE [repositories |-> stats.repositories, totals |-> Get(stats, "totals", <<>>)]

\* The snapshot of the end-to-end scenario of the specification, and the same
\* snapshot with the record and the totals a run of the script writes.
ScenarioSnapshot ==
    [last_updated |-> T0, totals |-> [total_pulls |-> 5],
     repositories |-> SetItem(<<>>, <<Owner, "a">>, [pull_count |-> 5])]
FullSnapshot(s) ==
    IF s = "legacy"
    THEN Stats(s, T0, <<>>, SetItem(<<>>, <<Owner, "a">>,
               LegacyRecord([pull_count |-> 5])))
    ELSE Stats(s, T0, [total_pulls |-> 5, total_stars |-> 0],
               SetItem(<<>>, <<Owner, "a">>,
                       [pull_count |-> 5, star_count |-> 0, description |-> "",
                        last_updated |-> ""]))

\* The snapshot file a first run may find.
InitialFiles(s) ==
    IF s = "github" THEN {NoSnapshot}
    ELSE {NoSnapshot, ScenarioSnapshot, FullSnapshot(s)}

\* How long a suspended run stands still, and the schedule of the runs: one
\* every RunPeriod ticks, which no run outlasts.
StallTicks == cache_timeout_sec * TicksPerSec
RunPeriod == (MaxStalls + 1) * StallTicks
ScheduledStart(run) == StartTime + run * RunPeriod

\* The lists dockerhub-repos.yml may hold, and what the servers answer during
\* a run: a server that fails a request fails its retries as well.
ConfigRepos == {<< <<Owner, "a">> >>, << <<Owner, "a">>, <<Owner, "b">> >>}
RunResults(a) ==
    LET A(n) == ListedBody(a, <<Owner, "a">>, n)
        B(n) == ListedBody(a, <<Owner, "b">>, n)
    IN  {<<A(5)>>, <<A(6)>>, <<A(5), B(5)>>, <<A(6), B(5)>>}
RunPagesFor(a, url) ==
    {page \in PagesFor(a, url, RunResults(a)) :
        /\ page.headers = NoHeaders
        /\ a = "gh" => "list" \in DOMAIN page.body
        /\ a # "gh" => ("next" \in DOMAIN page.body /\ page.body.next = NoUrl)}
RunReplies(a) == {r \in Replies(a) : r.headers = NoHeaders /\ r.status = 404}
LegacyReplies == {r \in Replies("dh") : r.headers = NoHeaders /\ r.status \in {0, 200, 404}}

NewRepositoriesFromOld(old) == Get(old, "repositories", <<>>)

\* new_repositories = {}: the records of a run start empty, whatever the
\* previous snapshot old holds.
NewRepositories(old) == <<>>

\* Start of main: the previous snapshot is read and the client constructed
\* (fetch_stats.py reads its list of repositories instead).
RunBegin ==
    /\ run_pc \in {"idle", "done", "aborted"}
    /\ runs < MaxRuns
    /\ runs' = runs + 1
    /\ now' = ScheduledStart(runs + 1)
    /\ old_stats' = file
    /\ last_request_time' = 0
    /\ rate_limit_remaining' = None
    /\ rate_limit_reset' = None
    /\ cached_repositories' = NoEntries
    /\ mr_pc' = "idle"
    /\ endpoint' = AnyEndpoint
    /\ max_retries' = DefaultMaxRetries
    /\ retry_count' = 0
    /\ backoff_time' = InitialBackoff
    /\ response' = NoResponse
    /\ exc' = ""
    /\ req_last_start' = None
    /\ req_gap' = None
    /\ requests' = 0
    /\ call_requests' = 0
    /\ last_sleep' = None
    /\ last_reply' = NoReply
    /\ call_bare_429' = TRUE
    /\ gr_pc' = "idle"
    /\ gr_repo' = <<"", "">>
    /\ gr_use_cache' = TRUE
    /\ gr_curr_time' = 0
    /\ result' = NoBody
    /\ gr_prev' = NoEntry
    /\ gr_requests' = 0
    /\ pg_pc' = "idle"
    /\ pg_call' = "get_all_repos"
    /\ pg_items' = <<>>
    /\ pg_page' = 0
    /\ pg_max_pages' = None
    /\ pg_served' = <<>>
    /\ pg_requests' = 0
    /\ pg_clean' = TRUE
    /\ pg_urls' = <<>>
    /\ idx' = 1
    /\ step' = 1
    /\ rec' = <<>>
    /\ sums' = ZeroSums(script)
    /\ new_repositories' = NewRepositories(file)
    /\ failed' = <<>>
    /\ IF script = "legacy"
       THEN /\ repos' \in ConfigRepos
            /\ run_pc' = "loop"
       ELSE /\ repos' = <<>>
            /\ run_pc' = IF script = "analytics" THEN "reporting" ELSE "started"
    /\ session' = IF script \in {"dockerhub", "github"} THEN "open" ELSE session
    /\ ga_pc' = "idle"
    /\ ga_days' = None
    /\ cached_page_views' = <<>>
    /\ cache_timestamp' = None
    /\ UNCHANGED <<api, script, file, stalls, prev_fetched, change_time, scope_pc,
                   scope_raised, scope_exc, accVars>>

\* repos_data = requester.get_all_repos_for_namespace(namespace) /
\* repos = requester.get_all_repos_for_user(): the call.
RunList ==
    /\ run_pc = "started"
    /\ PaginateBegin("get_all_repos", None, 0)
    /\ run_pc' = "listing"
    /\ UNCHANGED <<cacheVars, script, file, old_stats, repos, idx, step, rec, sums,
                   new_repositories, runs, stalls, failed, prev_fetched, change_time,
                   callerVars>>

\* The key main makes of a listed repository:
\* f"{repo['namespace']}/{repo['name']}", f'{requester.owner}/{repo}'.
HasKeyFields(a, item) ==
    /\ "name" \in DOMAIN item
    /\ a # "gh" => "namespace" \in DOMAIN item
RepoKey(a, item) == IF a = "gh" THEN <<Owner, item.name>> ELSE <<item.namespace, item.name>>

\* The listing has returned: repos = [...], or the KeyError of a listed
\* repository without a name leaves main.
RunListed ==
    /\ run_pc = "listing"
    /\ pg_pc = "returned"
    /\ IF \A i \in 1..Len(result) : HasKeyFields(api, result[i])
       THEN /\ repos' = [i \in 1..Len(result) |-> RepoKey(api, result[i])]
            /\ run_pc' = "loop"
       ELSE /\ repos' = <<>>
            /\ run_pc' = "aborted"
    /\ UNCHANGED <<clientVars, requestVars, historyVars, result, cacheVars, pageVars,
                   script, file, old_stats, idx, step, rec, sums, new_repositories,
                   runs, stalls, failed, prev_fetched, change_time,
                   callerVars>>

RunListRaiseClearsFile ==
    /\ run_pc = "listing"
    /\ pg_pc = "raised"
    /\ run_pc' = "aborted"
    /\ file' = NoSnapshot
    /\ UNCHANGED <<clientVars, requestVars, historyVars, result, cacheVars, pageVars,
                   script, old_stats, repos, idx, step, rec, sums,
                   new_repositories, runs, stalls, failed, prev_fetched, change_time,
                   callerVars>>

\* The listing has raised: the exception leaves main.
RunListRaise ==
    /\ run_pc = "listing"
    /\ pg_pc = "raised"
    /\ run_pc' = "aborted"
    /\ UNCHANGED <<clientVars, requestVars, historyVars, result, cacheVars, pageVars,
                   script, file, old_stats, repos, idx, step, rec, sums,
                   new_repositories, runs, stalls, failed, prev_fetched, change_time,
                   callerVars>>

\* The loop body calls the next accessor, which calls get_repository /
\* get_repo; the process may have been suspended before.
RunAccessor ==
    /\ run_pc = "loop"
    /\ script # "legacy"
    /\ idx <= Len(repos)
    /\ Calls(script)[step].method \in ClientMethods(api)
    /\ \E delay \in {0} \cup (IF stalls < MaxStalls THEN {StallTicks} ELSE {}) :
           /\ GetRepository(repos[idx], TRUE, delay)
           /\ stalls' = IF delay = 0 THEN stalls ELSE stalls + 1
    /\ run_pc' = "calling"
    /\ UNCHANGED <<pageVars, script, file, old_stats, repos, idx, step, rec, sums,
                   new_repositories, runs, failed, prev_fetched, change_time,
                   callerVars>>

\* The accessor has returned its field: the value is kept and summed, and
\* after the last accessor the record is stored.
RunAccessorReturn ==
    /\ run_pc = "calling"
    /\ gr_pc = "returned"
    /\ LET call == Calls(script)[step]
           value == AccessorValue(api, call.method, result)
           r == SetItem(rec, call.key, value)
       IN  /\ sums' = IF call.total # "" THEN [sums EXCEPT ![call.total] = @ + value]
                      ELSE sums
           /\ IF step = Len(Calls(script))
              THEN /\ new_repositories' = SetItem(new_repositories, repos[idx], r)
                   /\ idx' = idx + 1
                   /\ step' = 1
                   /\ rec' = <<>>
              ELSE /\ step' = step + 1
                   /\ rec' = r
                   /\ UNCHANGED <<new_repositories, idx>>
    /\ run_pc' = "loop"
    /\ UNCHANGED <<clientVars, requestVars, historyVars, result, cacheVars, pageVars,
                   script, file, old_stats, repos, runs, stalls, failed, prev_fetched,
                   change_time,
                   callerVars>>

\* The accessor has raised: the except clause records the error.
RunAccessorRaise ==
    /\ run_pc = "calling"
    /\ gr_pc = "raised"
    /\ new_repositories' = OnFetchError(new_repositories, repos[idx], exc)
    /\ failed' = SetItem(failed, repos[idx], exc)
    /\ idx' = idx + 1
    /\ step' = 1
    /\ rec' = <<>>
    /\ run_pc' = "loop"
    /\ UNCHANGED <<clientVars, requestVars, historyVars, result, cacheVars, pageVars,
                   script, file, old_stats, repos, sums, runs, stalls, prev_fetched,
                   change_time,
                   callerVars>>

\* The loop body calls an accessor the client does not have: AttributeError.
RunMissingAccessor ==
    /\ run_pc = "loop"
    /\ script # "legacy"
    /\ idx <= Len(repos)
    /\ Calls(script)[step].method \notin ClientMethods(api)
    /\ new_repositories' = OnFetchError(new_repositories, repos[idx], "AttributeError")
    /\ failed' = SetItem(failed, repos[idx], "AttributeError")
    /\ idx' = idx + 1
    /\ step' = 1
    /\ rec' = <<>>
    /\ UNCHANGED <<clientVars, requestVars, historyVars, result, cacheVars, pageVars,
                   script, run_pc, file, old_stats, repos, sums, runs, stalls,
                   prev_fetched, change_time,
                   callerVars>>

\* The loop body of fetch_stats.py: requests.get(url), raise_for_status(),
\* the record; or the error.
RunLegacyFetch ==
    /\ run_pc = "loop"
    /\ script = "legacy"
    /\ idx <= Len(repos)
    /\ \E reply \in LegacyReplies :
          IF reply.kind = "transport"
          THEN /\ new_repositories' = OnFetchError(new_repositories, repos[idx],
                                                   "ConnectionError")
               /\ failed' = SetItem(failed, repos[idx], "ConnectionError")
          ELSE IF RaisesForStatus(reply.status)
          THEN /\ new_repositories' = OnFetchError(new_repositories, repos[idx],
                                                   "HTTPError")
               /\ failed' = SetItem(failed, repos[idx], "HTTPError")
          ELSE /\ \E data \in RepoBodies("dh", repos[idx]) :
                      new_repositories' = SetItem(new_repositories, repos[idx],
                                                  LegacyRecord(data))
               /\ UNCHANGED failed
    /\ idx' = idx + 1
    /\ UNCHANGED <<clientVars, requestVars, historyVars, result, cacheVars, pageVars,
                   script, run_pc, file, old_stats, repos, step, rec, sums, runs, stalls,
                   prev_fetched, change_time,
                   callerVars>>

\* After the loop: the totals, the comparison with the previous snapshot, and
\* the write of the whole document.
RunWrite ==
    /\ run_pc = "loop"
    /\ idx > Len(repos)
    /\ LET totals == sums
           has_changes == HasChanges(script, new_repositories, totals, old_stats)
           stats == Stats(script, LastUpdated(has_changes, old_stats, now), totals,
                          new_repositories)
       IN  /\ file' = stats
           /\ prev_fetched' = Fetched(stats)
           /\ change_time' = IF prev_fetched = <<>> \/ Fetched(stats) # prev_fetched
                             THEN IsoFormat(now) ELSE change_time
    /\ run_pc' = "done"
    /\ session' = IF script \in {"dockerhub", "github"} THEN "closed" ELSE session
    /\ UNCHANGED <<clientVars, requestVars, historyVars, result, cacheVars, pageVars,
                   script, old_stats, repos, idx, step, rec, sums, new_repositories,
                   runs, stalls, failed, scope_pc, scope_raised, scope_exc, accVars,
                   gaVars>>

\* What the servers answer during a run.
RunAttempt ==
    \/ /\ run_pc = "listing"
       /\ PageAttemptOf(IF call_requests = 0 THEN RunPagesFor(api, endpoint) ELSE {},
                        RunReplies(api))
    \/ /\ run_pc = "calling"
       /\ CacheAttemptOf(RunReplies(api)
                         \cup {r \in CacheReplies(api) : r.status = 200 /\ call_requests = 0})

RunInit ==
    /\ script \in Scripts
    /\ api = ApiOf(script)
    /\ now = StartTime
    /\ last_request_time = 0
    /\ rate_limit_remaining = None
    /\ rate_limit_reset = None
    /\ cached_repositories = NoEntries
    /\ InitRequest
    /\ InitCache
    /\ InitPage
    /\ run_pc = "idle"
    /\ file \in InitialFiles(script)
    /\ old_stats = NoSnapshot
    /\ repos = <<>>
    /\ idx = 1
    /\ step = 1
    /\ rec = <<>>
    /\ sums = <<>>
    /\ new_repositories = <<>>
    /\ runs = 0
    /\ stalls = 0
    /\ failed = <<>>
    /\ prev_fetched = Fetched(file)
    /\ change_time = Get(file, "last_updated", <<>>)
    /\ session = "none"
    /\ scope_pc = "outside"
    /\ scope_raised = ""
    /\ scope_exc = ""
    /\ acc_pc = "idle"
    /\ acc_method = ""
    /\ acc_value = None
    /\ ga_pc = "idle"
    /\ ga_days = None
    /\ cached_page_views = <<>>
    /\ cache_timestamp = None

RunNext ==
    \/ RunBegin
    \/ RunList
    \/ RunAttempt
    \/ PaginatePage /\ UNCHANGED <<cacheVars, runVars, callerVars>>
    \/ PaginateRaise /\ UNCHANGED <<cacheVars, runVars, callerVars>>
    \/ RunListed
    \/ RunListRaise
    \/ RunAccessor
    \/ GetRepositoryStore /\ UNCHANGED <<pageVars, runVars, callerVars>>
    \/ GetRepositoryRaise /\ UNCHANGED <<pageVars, runVars, callerVars>>
    \/ RunAccessorReturn
    \/ RunAccessorRaise
    \/ RunMissingAccessor
    \/ RunLegacyFetch
    \/ RunWrite

RunSpec == RunInit /\ [][RunNext]_vars

\* ------------------------------------------------------------------ claims
RECURSIVE Pow2(_)
Pow2(n) == IF n <= 0 THEN 1 ELSE 2 * Pow2(n - 1)

\* C1: no two consecutive HTTP requests of one client, first attempts and
\* retries alike, start less than min_sleep_time apart.
C1_RequestSpacing == req_gap # None => req_gap >= min_sleep_time

\* The latest attempt was answered with a client error that is no
\* rate-limit signal for this client.
ClientErrorReply ==
    /\ last_reply.kind = "response"
    /\ last_reply.status >= 400 /\ last_reply.status < 500
    /\ ~IsRateLimited(api, last_reply.status)

\* C2: a 4xx response that is no rate-limit signal makes _make_request raise
\* at once: the call has ended, and when it was the call's first request no
\* sleep was made and no second request follows.
C2_ClientErrorRaisesAtOnce ==
    ClientErrorReply =>
        /\ mr_pc = "raised"
        /\ call_requests = 1 => last_sleep = None

\* C3: while every attempt of a call is answered with 429 and no Retry-After,
\* the k-th sleep lasts 2^(k-1) seconds (1, 2, 4, ...), every attempt uses up
\* one retry, no more than max_retries + 1 requests are issued, and the call
\* raises, HTTPError, only once the retries are used up.
C3_BackoffDoubles ==
    (call_bare_429 /\ mr_pc \in {"loop", "raised"}) =>
        /\ retry_count = call_requests
        /\ call_requests <= max_retries + 1
        /\ last_sleep = (IF call_requests = 0 THEN None ELSE Pow2(call_requests - 1))
        /\ backoff_time = Pow2(call_requests)
        /\ mr_pc = "raised" => (call_requests = max_retries + 1 /\ exc = "HTTPError")
        /\ call_requests = max_retries + 1 => ~ENABLED SomeAttempt

C3_Witness ==
    /\ call_bare_429
    /\ mr_pc = "raised"
    /\ max_retries = DefaultMaxRetries
    /\ call_requests = DefaultMaxRetries + 1
    /\ last_sleep = 8

\* The latest attempt was answered with a rate-limit status carrying a
\* Retry-After header with an integer value.
RetryAfterReply ==
    /\ last_reply.kind = "response"
    /\ IsRateLimited(api, last_reply.status)
    /\ HasHeader(last_reply, "retry_after")
    /\ IsIntString(last_reply.headers.retry_after)

\* C4: after a rate-limited response with Retry-After: N the sleep before the
\* next attempt lasts N seconds, not the backoff value, so that at least N
\* seconds have passed since the response, however many retries came before.
C4_RetryAfterHonoured ==
    RetryAfterReply =>
        /\ last_sleep = IntOf(last_reply.headers.retry_after)
        /\ now - last_request_time >= IntOf(last_reply.headers.retry_after) * TicksPerSec

C4_Witness ==
    /\ RetryAfterReply
    /\ call_requests = 3
    /\ last_reply.headers.retry_after = <<"0">>
    /\ last_sleep = 0
    /\ backoff_time = 8

\* C5: a fetch of a key whose cache entry is younger than cache_timeout_sec
\* (get_repository with use_cache, or get_repo) returns the cached body and
\* issues no HTTP request; a fetch made once the entry is at least that old
\* issues a request and, when it returns, gives the body just received and
\* has replaced the entry with it.
C5_CacheWithinTimeout ==
    (gr_pc \in {"returned", "raised"} /\ gr_use_cache /\ gr_prev # NoEntry) =>
        IF gr_curr_time - gr_prev.time < cache_timeout_sec * TicksPerSec
        THEN /\ gr_pc = "returned"
             /\ requests = gr_requests
             /\ result = gr_prev.data
             /\ CacheGet(cached_repositories, gr_repo) = gr_prev
        ELSE /\ requests > gr_requests
             /\ gr_pc = "returned" =>
                    /\ response.status = 200
                    /\ result = response.body
                    /\ CacheGet(cached_repositories, gr_repo) =
                           [time |-> gr_curr_time, data |-> response.body]

\* An entry exactly cache_timeout_sec old is fetched again and replaced by a
\* body that differs from the cached one.
C5_Witness ==
    /\ gr_pc = "returned" /\ gr_use_cache /\ gr_prev # NoEntry
    /\ gr_curr_time - gr_prev.time = cache_timeout_sec * TicksPerSec
    /\ result # gr_prev.data
    /\ cached_repositories[gr_repo].data = result

\* An entry one tick younger than cache_timeout_sec is served from the cache.
C5_WitnessHit ==
    /\ gr_pc = "returned" /\ gr_use_cache /\ gr_prev # NoEntry
    /\ gr_curr_time - gr_prev.time = cache_timeout_sec * TicksPerSec - 1
    /\ requests = gr_requests
    /\ result = gr_prev.data

\* C6: a run that found a previous snapshot writes a last_updated that differs
\* from the previous one exactly when the records or the totals it writes
\* differ from those of the previous snapshot; otherwise the previous
\* last_updated is carried over.
C6_LastUpdatedIffChanged ==
    (run_pc = "done" /\ old_stats # NoSnapshot) =>
        ((file.last_updated # old_stats.last_updated)
           <=> (\/ file.repositories # old_stats.repositories
                \/ Get(file, "totals", <<>>) # Get(old_stats, "totals", <<>>)))

\* A third run that fetched what the second had fetched: last_updated is the
\* one the second run left.
C6_Witness ==
    /\ run_pc = "done" /\ runs = 3
    /\ old_stats # NoSnapshot
    /\ file.repositories = old_stats.repositories
    /\ Get(file, "totals", <<>>) = Get(old_stats, "totals", <<>>)
    /\ file.last_updated = old_stats.last_updated
    /\ file.last_updated = IsoFormat(ScheduledStart(2))

\* A run whose records equal the previous ones while a total differs.
C6_WitnessTotals ==
    /\ run_pc = "done"
    /\ script = "github"
    /\ old_stats # NoSnapshot
    /\ file.repositories = old_stats.repositories
    /\ file.totals # old_stats.totals
    /\ file.last_updated = IsoFormat(now)

\* The run of the end-to-end scenario: the previous snapshot is the one of the
\* specification, ns/a is the only repository listed and its fetch gave
\* pull_count = 5.
ScenarioRun ==
    /\ run_pc = "done"
    /\ old_stats = ScenarioSnapshot
    /\ repos = << <<Owner, "a">> >>
    /\ "pull_count" \in DOMAIN file.repositories[<<Owner, "a">>]
    /\ file.repositories[<<Owner, "a">>].pull_count = 5

\* C7 as stated: the run of the scenario writes last_updated = "T0".
C7_ScenarioKeepsT0 == ScenarioRun => file.last_updated = T0

\* C7 as amended: when the previous snapshot has last_updated "T0" and holds
\* the totals and the ns/a record in the shape the script writes, a run that
\* lists ns/a alone and fetches that record unchanged writes last_updated =
\* "T0"; the run of the scenario, whose previous record and totals are
\* abbreviated, writes the current time.
C7_FullScenarioKeepsT0 ==
    /\ (/\ run_pc = "done"
        /\ script \in {"dockerhub", "legacy"}
        /\ old_stats = FullSnapshot(script)
        /\ repos = << <<Owner, "a">> >>
        /\ file.repositories[<<Owner, "a">>] = old_stats.repositories[<<Owner, "a">>])
           => file.last_updated = T0
    /\ ScenarioRun => file.last_updated = IsoFormat(now)

C7_Witness ==
    /\ run_pc = "done"
    /\ script = "dockerhub"
    /\ old_stats = FullSnapshot(script)
    /\ repos = << <<Owner, "a">> >>
    /\ file.repositories[<<Owner, "a">>] = old_stats.repositories[<<Owner, "a">>]
    /\ file.repositories[<<Owner, "a">>].pull_count = 5
    /\ file.totals.total_pulls = 5
    /\ file.last_updated = T0

\* C8: the last_updated a run writes is the time of the last run whose records
\* or totals differed from those of the snapshot before it; a run that
\* fetched what the preceding snapshot holds leaves the last_updated of that
\* snapshot.
C8_IdenticalRunsKeepLastUpdated ==
    run_pc = "done" =>
        /\ file.last_updated = change_time
        /\ (old_stats # NoSnapshot /\ Fetched(file) = Fetched(old_stats))
               => file.last_updated = old_stats.last_updated

\* Two runs in a row that fetched what the first run had written: last_updated
\* is still the time of the first run.
C8_Witness ==
    /\ run_pc = "done" /\ runs = 3
    /\ Len(file.last_updated) = 2
    /\ file.last_updated[2] < ScheduledStart(2)
    /\ file.last_updated[2] >= ScheduledStart(1)
    /\ change_time = file.last_updated

\* C9: a repository whose fetch raised is written as {"error": message}, every
\* listed repository has its entry (the others a record without error), the
\* snapshot is written, and no run ends with the exception of a fetch.
C9_FailuresBecomeErrorEntries ==
    /\ run_pc = "aborted" => DOMAIN failed = {}
    /\ run_pc \in {"loop", "calling"} =>
           \A repo \in DOMAIN failed :
               Get(new_repositories, repo, <<>>) = [error |-> failed[repo]]
    /\ run_pc = "done" =>
           /\ DOMAIN file.repositories = {repos[i] : i \in 1..Len(repos)}
           /\ \A repo \in DOMAIN file.repositories :
                  IF repo \in DOMAIN failed
                  THEN file.repositories[repo] = [error |-> failed[repo]]
                  ELSE "error" \notin DOMAIN file.repositories[repo]

\* The fetch of the first of two listed repositories raised, the second was
\* fetched, and the snapshot holds both.
C9_Witness ==
    /\ run_pc = "done"
    /\ script = "dockerhub"
    /\ Len(repos) = 2
    /\ repos[1] \in DOMAIN failed
    /\ repos[2] \notin DOMAIN failed
    /\ file.repositories[repos[1]] = [error |-> "HTTPError"]
    /\ file.repositories[repos[2]].pull_count = 5

\* Whether a page, as the server sent it, carries a link to a following page:
\* a Link value with rel="next" (GitHub), a body field next that is not null
\* (Docker Hub).
CarriesNext(page) ==
    IF api = "gh"
    THEN /\ "link" \in DOMAIN page.headers
         /\ \E i \in 1..Len(page.headers.link) : page.headers.link[i].rel = "next"
    ELSE "next" \in DOMAIN page.body /\ page.body.next # NoUrl

\* Whether a page is a list of items, and the items of the first n pages of a
\* sequence of such pages, in page order and in-page order.
IsItemPage(page) == IF api = "gh" THEN "list" \in DOMAIN page.body
                    ELSE "results" \in DOMAIN page.body
ItemsSent(page) == IF api = "gh" THEN page.body.list ELSE page.body.results
RECURSIVE ItemsOfPages(_, _)
ItemsOfPages(pages, n) ==
    IF n = 0 THEN <<>> ELSE ItemsOfPages(pages, n - 1) \o ItemsSent(pages[n])

\* The pages sent to the paginated fetch so far are lists of items, all but the
\* last carry a next link and the last carries none.
LinkedPages ==
    /\ Len(pg_served) >= 1
    /\ \A i \in 1..Len(pg_served) :
           /\ IsItemPage(pg_served[i])
           /\ CarriesNext(pg_served[i]) <=> i < Len(pg_served)

\* C10: when the server sends pages p1 .. pn (n = 3 in the claim) of which all
\* but the last carry a next link, an uncapped paginated fetch ends there and
\* returns the items of p1, then p2, ..., then pn, in page order and in-page
\* order, after exactly n page fetches, which are exactly n HTTP requests when no
\* attempt failed.
C10_PagesInOrder ==
    (LinkedPages /\ pg_max_pages = None) =>
        /\ pg_pc = "returned"
        /\ result = ItemsOfPages(pg_served, Len(pg_served))
        /\ pg_page = Len(pg_served)
        /\ pg_clean => requests - pg_requests = Len(pg_served)

\* Three pages, the first of two items and the third of one, every request
\* answered at once: all three items are returned, in order.
C10_Witness ==
    /\ LinkedPages /\ pg_max_pages = None /\ pg_clean
    /\ Len(pg_served) = 3
    /\ Len(ItemsSent(pg_served[1])) = 2
    /\ Len(ItemsSent(pg_served[2])) = 0
    /\ Len(ItemsSent(pg_served[3])) = 1
    /\ pg_pc = "returned"
    /\ Len(result) = 3
    /\ result[3] = ItemsSent(pg_served[3])[1]
    /\ requests - pg_requests = 3

\* C11: the GitHub client issues no HTTP request, first attempt or retry, at a
\* clock time earlier than the recorded rate_limit_reset while the recorded
\* rate_limit_remaining is below 10.
C11_NoRequestBeforeReset ==
    [][(/\ api = "gh"
        /\ requests' = requests + 1
        /\ rate_limit_remaining # None
        /\ rate_limit_remaining < RateLimitThreshold
        /\ rate_limit_reset # None)
       => now >= rate_limit_reset * TicksPerSec]_vars

\* ------------------------------------------ the exception a request ends with
\* url = urljoin(self.base_url, endpoint.lstrip('/')): the URL requested; an
\* endpoint that is an absolute URL already stays as it is.
FullUrl(a, ep) ==
    IF ep.host = "" THEN [host |-> BaseUrl(a), path |-> ep.path, query |-> ep.query]
    ELSE ep

\* What the message of an exception tells, as a record of the values it holds.
\* raise requests.HTTPError(f"Request failed after {max_retries} retries")
ExhaustedMessage(mr) == [text |-> "Request failed after retries", retries |-> mr]

\* The HTTPError of response.raise_for_status(), re-raised by the except
\* clause: "<status> Client Error: <reason> for url: <url>".
StatusMessage(status, url) == [text |-> "Error for url", status |-> status, url |-> url]

\* The exception session.request raised, re-raised by the except clause: the
\* library's text, which names the URL that could not be reached.
TransportMessage(url) == [text |-> "Connection failed", url |-> url]

\* The ValueError of int(retry_after).
ValueErrorMessage(value) == [text |-> "invalid literal for int()", value |-> value]

\* The message of the exception the current call of _make_request ended with.
RaisedMessage ==
    IF last_reply.kind = "transport" THEN TransportMessage(FullUrl(api, endpoint))
    ELSE IF IsRateLimited(api, last_reply.status)
         THEN IF WaitRaises(last_reply)
              THEN ValueErrorMessage(last_reply.headers.retry_after)
              ELSE ExhaustedMessage(max_retries)
         ELSE StatusMessage(last_reply.status, FullUrl(api, endpoint))

\* C12: when a _make_request call ends because max_retries was exceeded, by
\* rate-limit responses or by failures, the error it raises names the endpoint
\* that was requested and the number of attempts made (a message that gives
\* the number of retries made is taken to name the attempts as well).
C12_ErrorNamesEndpointAndAttempts ==
    (mr_pc = "raised" /\ retry_count > max_retries) =>
        LET m == RaisedMessage
        IN  /\ "url" \in DOMAIN m
            /\ m.url = FullUrl(api, endpoint)
            /\ \/ "attempts" \in DOMAIN m /\ m.attempts = call_requests
               \/ "retries" \in DOMAIN m /\ m.retries = call_requests - 1

\* ------------------------------------------- the client in a with statement
\* The exceptions the body of a with statement raises on its own account.
BodyErrors == {"KeyError"}

\* with DockerHubRestApi(...) as requester: __enter__ returns self.
ScopeEnter ==
    /\ scope_pc = "outside"
    /\ scope_pc' = "inside"
    /\ UNCHANGED <<clientVars, requestVars, historyVars, result, cacheVars, pageVars,
                   runVars, session, scope_raised, scope_exc, accVars, gaVars>>

\* The body of the with statement calls the client.
ScopeCall ==
    /\ scope_pc = "inside"
    /\ \E mr \in RetryArgs, delay \in Delays : DirectCall(mr, delay)

ScopeAttempt ==
    /\ scope_pc = "inside"
    /\ SomeAttempt

ExitSuppresses == TRUE

\* What __exit__ returns: nothing, that is None, which is false.
ExitReturn == FALSE

\* The with statement is left while the exception raised ("" for none) is
\* under way: __exit__ runs close(), which closes the session, and the
\* exception is raised again unless __exit__ returned a true value.
ScopeExit(raised) ==
    /\ scope_pc = "inside"
    /\ mr_pc # "loop"
    /\ session' = "closed"
    /\ scope_pc' = "left"
    /\ scope_raised' = raised
    /\ scope_exc' = IF ExitReturn THEN "" ELSE raised
    /\ UNCHANGED <<clientVars, requestVars, historyVars, result, cacheVars, pageVars,
                   runVars, accVars, gaVars>>

\* The body runs to its end (an exception of a call was caught in the body).
ScopeComplete == ScopeExit("")

\* The exception of a call of the client leaves the body.
ScopeCallRaises == mr_pc = "raised" /\ ScopeExit(exc)

\* The body raises on its own account.
ScopeBodyRaises == \E name \in BodyErrors : ScopeExit(name)

ScopeNext ==
    \/ ScopeEnter
    \/ ScopeCall
    \/ ScopeAttempt
    \/ ScopeComplete
    \/ ScopeCallRaises
    \/ ScopeBodyRaises

ScopeSpec == Init /\ [][ScopeNext]_vars

\* C13: when a client is used in a with statement, its session is closed on
\* every way out of the statement, the normal one and an exception raised
\* inside, and the exception raised inside still reaches the caller after the
\* session is closed.
C13_ScopeClosesSession ==
    scope_pc = "left" => (session = "closed" /\ scope_exc = scope_raised)

\* A call inside the with statement gave up with HTTPError: the session is
\* closed and the HTTPError has left the statement.
C13_Witness ==
    /\ scope_pc = "left"
    /\ mr_pc = "raised"
    /\ scope_raised = "HTTPError"
    /\ scope_exc = "HTTPError"
    /\ session = "closed"

\* ------------------------------------------------------ the analytics script
\* history[-100:]
HistoryLimit == 100

\* os.environ.get("GA4_PROPERTY_ID", "YOUR_PROPERTY_ID")
PropertyId == "YOUR_PROPERTY_ID"

\* os.environ.get("BLOG_PATH_PREFIX", "/blog/"): a page path is the sequence of
\* its segments, "/blog/a" is <<"blog", "a">>, and the prefix "/blog/" the
\* segments before its last slash.
BlogPathPrefix == <<"blog">>

\* path.startswith(blog_path_prefix)
StartsWith(path, prefix) ==
    Len(path) > Len(prefix) /\ SubSeq(path, 1, Len(prefix)) = prefix

\* The page views a report may give: page_views[page_path] = views.
Reports ==
    LET a == <<"blog", "a">>
        b == <<"blog", "b">>
        c == <<"about">>
    IN  { <<>>,
          [p \in {a} |-> 3],
          [p \in {a, c} |-> IF p = a THEN 3 ELSE 1],
          [p \in {a, b} |-> IF p = a THEN 4 ELSE 1] }

\* get_blog_post_views: the pages whose path starts with the prefix.
BlogPostViews(all_page_views, prefix) ==
    [p \in {q \in DOMAIN all_page_views : StartsWith(q, prefix)} |-> all_page_views[p]]

\* total_views += views, over the blog posts.
RECURSIVE TotalViews(_)
TotalViews(blog_views) ==
    IF DOMAIN blog_views = {} THEN 0
    ELSE LET p == CHOOSE q \in DOMAIN blog_views : TRUE
         IN  blog_views[p]
             + TotalViews([q \in DOMAIN blog_views \ {p} |-> blog_views[q]])

\* sorted(blog_views.items(), key = lambda x: x[1], reverse = True): the paths
\* in the order the loop takes them.
ByViews(blog_views) ==
    CHOOSE s \in [1..Cardinality(DOMAIN blog_views) -> DOMAIN blog_views] :
        /\ \A i, j \in DOMAIN s : i # j => s[i] # s[j]
        /\ \A i, j \in DOMAIN s : i < j => blog_views[s[i]] >= blog_views[s[j]]

\* history = old_stats["history"] if old_stats and "history" in old_stats
\* else []
AnalyticsHistory(old) ==
    IF old # NoSnapshot /\ "history" \in DOMAIN old THEN old.history ELSE <<>>

FirstEntries(history, n) ==
    IF Len(history) > n THEN SubSeq(history, 1, n) ELSE history

\* history[-n:]
LastEntries(history, n) ==
    IF Len(history) > n THEN SubSeq(history, Len(history) - n + 1, Len(history))
    ELSE history

\* The entry the run adds to the history.
HistoryEntry(t, blog_views) ==
    [timestamp |-> IsoFormat(t),
     total_blog_posts |-> Cardinality(DOMAIN blog_views),
     total_page_views |-> TotalViews(blog_views)]

\* new_stats, with its history, as main writes it at time t.
AnalyticsStats(old, t, blog_views) ==
    [last_updated |-> IsoFormat(t),
     property_id |-> PropertyId,
     blog_path_prefix |-> BlogPathPrefix,
     totals |-> [total_blog_posts |-> Cardinality(DOMAIN blog_views),
                 total_page_views |-> TotalViews(blog_views)],
     blog_posts |-> [p \in DOMAIN blog_views |->
                        [page_views |-> blog_views[p], last_fetched |-> IsoFormat(t)]],
     history |-> LastEntries(Append(AnalyticsHistory(old), HistoryEntry(t, blog_views)),
                             HistoryLimit)]

\* A snapshot an earlier run of the script has written.
AnalyticsSnapshot ==
    [last_updated |-> T0,
     property_id |-> PropertyId,
     blog_path_prefix |-> BlogPathPrefix,
     totals |-> [total_blog_posts |-> 1, total_page_views |-> 2],
     blog_posts |-> [p \in {<<"blog", "b">>} |-> [page_views |-> 2, last_fetched |-> T0]],
     history |-> <<[timestamp |-> T0, total_blog_posts |-> 1, total_page_views |-> 2]>>]

\* The snapshot after as many runs as the history holds entries: the i-th
\* entry is that of the i-th of these runs.
LongHistorySnapshot ==
    [AnalyticsSnapshot EXCEPT
        !.history = [i \in 1..HistoryLimit |->
                        [timestamp |-> <<"past", i>>, total_blog_posts |-> 1,
                         total_page_views |-> 2]]]

AnalyticsFiles == {NoSnapshot, AnalyticsSnapshot, LongHistorySnapshot}

\* main of fetch-google-analytics-stats.py after the client is constructed:
\* the report is run (a new client has nothing cached and has never sent a
\* request, so it neither returns cached views nor sleeps), the blog posts are
\* taken from it, and the document is written with its history.
RunAnalyticsReport ==
    /\ script = "analytics"
    /\ run_pc = "reporting"
    /\ \E report \in Reports :
          LET blog_views == BlogPostViews(report, BlogPathPrefix)
              stats == AnalyticsStats(old_stats, now, blog_views)
          IN  /\ repos' = ByViews(blog_views)
              /\ new_repositories' = stats.blog_posts
              /\ sums' = stats.totals
              /\ file' = stats
              /\ cached_page_views' = report
    /\ cache_timestamp' = now
    /\ last_request_time' = now
    /\ idx' = Len(repos') + 1
    /\ run_pc' = "done"
    /\ UNCHANGED <<api, now, rate_limit_remaining, rate_limit_reset, cached_repositories,
                   requestVars, historyVars, result, cacheVars, pageVars, script,
                   old_stats, step, rec, runs, stalls, failed, prev_fetched, change_time,
                   scopeVars, accVars, ga_pc, ga_days>>

\* The client cannot be constructed or the report raises: the exception
\* leaves main.
RunAnalyticsRaise ==
    /\ script = "analytics"
    /\ run_pc = "reporting"
    /\ run_pc' = "aborted"
    /\ UNCHANGED <<clientVars, requestVars, historyVars, result, cacheVars, pageVars,
                   script, file, old_stats, repos, idx, step, rec, sums,
                   new_repositories, runs, stalls, failed, prev_fetched, change_time,
                   callerVars>>

AnalyticsInit ==
    /\ script = "analytics"
    /\ api = "ga"
    /\ now = StartTime
    /\ last_request_time = 0
    /\ rate_limit_remaining = None
    /\ rate_limit_reset = None
    /\ cached_repositories = NoEntries
    /\ InitRequest
    /\ InitCache
    /\ InitPage
    /\ run_pc = "idle"
    /\ file \in AnalyticsFiles
    /\ old_stats = NoSnapshot
    /\ repos = <<>>
    /\ idx = 1
    /\ step = 1
    /\ rec = <<>>
    /\ sums = <<>>
    /\ new_repositories = <<>>
    /\ runs = 0
    /\ stalls = 0
    /\ failed = <<>>
    /\ prev_fetched = <<>>
    /\ change_time = <<>>
    /\ session = "none"
    /\ scope_pc = "outside"
    /\ scope_raised = ""
    /\ scope_exc = ""
    /\ acc_pc = "idle"
    /\ acc_method = ""
    /\ acc_value = None
    /\ ga_pc = "idle"
    /\ ga_days = None
    /\ cached_page_views = <<>>
    /\ cache_timestamp = None

\* The four scripts that write a snapshot.
SnapshotInit == RunInit \/ AnalyticsInit

SnapshotNext ==
    \/ RunNext
    \/ RunAnalyticsReport
    \/ RunAnalyticsRaise

SnapshotSpec == SnapshotInit /\ [][SnapshotNext]_vars

\* The records of a snapshot document, the resources a run has listed, and
\* the document the run would write of what it has fetched if it had found no
\* previous snapshot.
Records(doc) ==
    IF "blog_posts" \in DOMAIN doc THEN doc.blog_posts ELSE Get(doc, "repositories", <<>>)
Listed == {repos[i] : i \in 1..Len(repos)}
WrittenAfresh ==
    IF script = "analytics"
    THEN AnalyticsStats(NoSnapshot, now,
                        [p \in DOMAIN new_repositories |-> new_repositories[p].page_views])
    ELSE Stats(script, IsoFormat(now), sums, new_repositories)

\* C14 as stated: the snapshot a run writes holds an entry for exactly the
\* resources listed in that run (a key of the previous snapshot that is not
\* listed is absent), and apart from last_updated every field of it is what
\* the run made of its own fetches: nothing else is carried over.
C14_OnlyLastUpdatedCarriedOver ==
    run_pc = "done" =>
        /\ DOMAIN Records(file) = Listed
        /\ DOMAIN file = DOMAIN WrittenAfresh
        /\ \A f \in DOMAIN file \ {"last_updated"} : file[f] = WrittenAfresh[f]

\* C14, amended: the snapshot a run writes holds an entry for exactly the
\* resources listed in that run, and every field of it is what the run made of
\* its own fetches, except last_updated and, in the analytics script, the
\* history, which is the latest 99 entries of the previous history followed
\* by the entry of this run.
C14_OnlyTimestampAndHistoryCarriedOver ==
    run_pc = "done" =>
        /\ DOMAIN Records(file) = Listed
        /\ DOMAIN file = DOMAIN WrittenAfresh
        /\ \A f \in DOMAIN file \ {"last_updated", "history"} : file[f] = WrittenAfresh[f]
        /\ "history" \in DOMAIN file =>
               LET h == file.history
               IN  /\ Len(h) >= 1
                   /\ <<h[Len(h)]>> = WrittenAfresh.history
                   /\ SubSeq(h, 1, Len(h) - 1)
                          = LastEntries(Get(old_stats, "history", <<>>), HistoryLimit - 1)

\* A run of the Docker Hub script that found ns/a and ns/b in the previous
\* snapshot and was listed ns/a alone has written a snapshot without ns/b.
C14_Witness ==
    /\ run_pc = "done"
    /\ script = "dockerhub"
    /\ <<Owner, "b">> \in DOMAIN Get(old_stats, "repositories", <<>>)
    /\ Listed = {<<Owner, "a">>}
    /\ DOMAIN file.repositories = {<<Owner, "a">>}

\* ------------------------------------------------- the accessors on their own
\* The bodies the server may send for a repository to an accessor: with every
\* field the accessors read, with the counts only, or with none of them.
AccessorBodies(a, repo) ==
    LET bare == IF a = "gh" THEN [name |-> repo[2]]
                ELSE [namespace |-> repo[1], name |-> repo[2]]
        counts == IF a = "gh"
                  THEN [stargazers_count |-> 7, forks_count |-> 2, watchers_count |-> 3,
                        open_issues_count |-> 1]
                  ELSE [pull_count |-> 5, star_count |-> 7]
        texts == IF a = "gh" THEN [description |-> "d"]
                 ELSE [description |-> "d", last_updated |-> "t"]
    IN  {bare, counts @@ bare, texts @@ counts @@ bare}

\* The repository the accessors are called for, and the pauses between calls.
AccessorRepo == <<Owner, "a">>
AccessorDelays == {0, cache_timeout_sec * TicksPerSec}

\* An accessor is called: repo_data = self.get_repository(repo, use_cache) /
\* self.get_repo(repo, owner), with use_cache at its default.
AccessorCall(method, delay) ==
    /\ acc_pc \in {"idle", "returned", "raised"}
    /\ method \in ClientMethods(api)
    /\ GetRepository(AccessorRepo, TRUE, delay)
    /\ gr_pc' = "fetching" => requests < MaxRequests
    /\ acc_pc' = "calling"
    /\ acc_method' = method
    /\ UNCHANGED <<pageVars, runVars, scopeVars, gaVars, acc_value>>

\* return repo_data.get(field, default)
AccessorReturn ==
    /\ acc_pc = "calling"
    /\ gr_pc = "returned"
    /\ acc_value' = AccessorValue(api, acc_method, result)
    /\ acc_pc' = "returned"
    /\ UNCHANGED <<clientVars, requestVars, historyVars, result, cacheVars, pageVars,
                   runVars, scopeVars, gaVars, acc_method>>

\* The exception of get_repository / get_repo leaves the accessor.
AccessorRaise ==
    /\ acc_pc = "calling"
    /\ gr_pc = "raised"
    /\ acc_pc' = "raised"
    /\ UNCHANGED <<clientVars, requestVars, historyVars, result, cacheVars, pageVars,
                   runVars, scopeVars, gaVars, acc_method, acc_value>>

\* The server's answer to the request of the accessor's fetch: a body, or a
\* failure.
AccessorAttempt ==
    /\ requests < MaxRequests
    /\ gr_pc = "fetching"
    /\ \/ \E body \in AccessorBodies(api, gr_repo) :
              Attempt(0, [kind |-> "response", status |-> 200, headers |-> NoHeaders],
                      body)
       \/ \E reply \in RunReplies(api) : Attempt(0, reply, NoBody)
    /\ UNCHANGED upperVars

AccessorNext ==
    \/ \E method \in ClientMethods(api), delay \in AccessorDelays :
           AccessorCall(method, delay)
    \/ AccessorAttempt
    \/ GetRepositoryStore /\ UNCHANGED <<pageVars, runVars, callerVars>>
    \/ GetRepositoryRaise /\ UNCHANGED <<pageVars, runVars, callerVars>>
    \/ AccessorReturn
    \/ AccessorRaise

AccessorSpec == Init /\ [][AccessorNext]_vars

\* The field each derived accessor is named after, and the defaults: 0 for
\* the counts, the empty string for the texts.
NamedField ==
    [get_repo_pull_count |-> "pull_count",
     get_repo_star_count |-> IF api = "gh" THEN "stargazers_count" ELSE "star_count",
     get_repo_description |-> "description",
     get_repo_last_updated |-> "last_updated",
     get_repo_fork_count |-> "forks_count",
     get_repo_watchers_count |-> "watchers_count",
     get_repo_open_issues_count |-> "open_issues_count"]
TextAccessors == {"get_repo_description", "get_repo_last_updated"}

\* C15: every derived accessor returns the named field of the resource body
\* when the body has it and its default (0 for a count, the empty string for a
\* text) when it has not, and raises only when the fetch of the body raised.
C15_AccessorsReturnFieldOrDefault ==
    /\ acc_pc = "returned" =>
           LET field == NamedField[acc_method]
           IN  IF field \in DOMAIN result THEN acc_value = result[field]
               ELSE IF acc_method \in TextAccessors THEN acc_value = ""
               ELSE acc_value = 0
    /\ acc_pc = "raised" => (gr_pc = "raised" /\ exc \in {"RequestException", "HTTPError"})

\* get_repo_description has returned the empty string of a body, fetched by
\* the client's second request, that has no description.
C15_Witness ==
    /\ acc_pc = "returned"
    /\ acc_method = "get_repo_description"
    /\ "description" \notin DOMAIN result
    /\ acc_value = ""
    /\ requests >= 2

\* The link to the following page as the server wrote it on a page that
\* carries one.
SentNext(page) ==
    IF api = "gh"
    THEN LET i == CHOOSE j \in 1..Len(page.headers.link) :
                      /\ page.headers.link[j].rel = "next"
                      /\ \A k \in (j + 1)..Len(page.headers.link) :
                             page.headers.link[k].rel # "next"
         IN  page.headers.link[i].url
    ELSE page.body.next

\* C16: when the next link of a page is an absolute URL, the request for the
\* following page is issued for the relative URL of exactly its path and query,
\* scheme and host stripped, by the Docker Hub and the GitHub paginator alike.
C16_NextLinkMadeRelative ==
    (/\ pg_pc = "fetching"
     /\ Len(pg_served) >= 1
     /\ CarriesNext(pg_served[Len(pg_served)])
     /\ SentNext(pg_served[Len(pg_served)]).host # "")
    => LET next == SentNext(pg_served[Len(pg_served)])
       IN  endpoint = [host |-> "", path |-> next.path, query |-> next.query]

\* C17: a paginated fetch is a finite sequence of page requests whatever the
\* server sends, also when a next link points back to an earlier page. In the
\* form a finite run can refute: an uncapped fetch never requests a URL it has
\* requested before, since from there on a server that answers a URL as it
\* did before keeps the fetch going for ever.
C17_NoPageRequestedTwice ==
    pg_max_pages = None =>
        \A i, j \in 1..Len(pg_urls) :
            i < j => FullUrl(api, pg_urls[i]) # FullUrl(api, pg_urls[j])

\* C18: one _make_request call issues at most max_retries + 1 HTTP requests and
\* is over after them, whatever mixture of rate-limit responses and transport or
\* HTTP failures answers it: every failed attempt of either kind takes one from
\* the same retry counter, and a call whose last attempt failed at transport
\* level with the retries used up has made exactly max_retries + 1 requests and
\* raises that last error.
C18_RetriesBounded ==
    /\ call_requests <= max_retries + 1
    /\ mr_pc = "loop" => (call_requests <= max_retries /\ retry_count = call_requests)
    /\ mr_pc = "returned" => retry_count = call_requests - 1
    /\ mr_pc = "raised" =>
           IF exc = "ValueError" THEN retry_count = call_requests - 1
           ELSE /\ retry_count = call_requests
                /\ call_requests = max_retries + 1
    /\ (mr_pc = "raised" /\ last_reply.kind = "transport") => exc = "RequestException"

\* A call with max_retries = 3 has waited 4 s, its third backoff, and its
\* fourth attempt has failed at transport level: it raises that failure after
\* four requests.
C18_Witness ==
    /\ mr_pc = "raised"
    /\ max_retries = DefaultMaxRetries
    /\ call_requests = DefaultMaxRetries + 1
    /\ ~call_bare_429
    /\ last_sleep = 4
    /\ last_reply.kind = "transport"
    /\ exc = "RequestException"

\* C19: the client's last_request_time is updated after every HTTP attempt,
\* also one that failed at transport level: it is never older than the start
\* of the latest attempt.
C19_LastRequestTimeFollowsAttempts ==
    req_last_start # None => last_request_time >= req_last_start

\* C20: in the GitHub client, after a response that carries the rate-limit
\* headers the recorded remaining quota and reset epoch are the header values,
\* and a response that carries none of them leaves both as they were.
C20_RateLimitInfoFollowsHeaders ==
    [][(api = "gh" /\ requests' = requests + 1 /\ last_reply'.kind = "response")
       => /\ IF HasHeader(last_reply', "x_ratelimit_remaining")
             THEN rate_limit_remaining' = IntOf(last_reply'.headers.x_ratelimit_remaining)
             ELSE rate_limit_remaining' = rate_limit_remaining
          /\ IF HasHeader(last_reply', "x_ratelimit_reset")
             THEN rate_limit_reset' = IntOf(last_reply'.headers.x_ratelimit_reset)
             ELSE rate_limit_reset' = rate_limit_reset]_vars

\* The latest attempt was answered 403, with a Retry-After that is an integer
\* or empty, or with none.
ForbiddenReply ==
    /\ last_reply.kind = "response"
    /\ last_reply.status = 403
    /\ Truthy(last_reply, "retry_after") => IsIntString(last_reply.headers.retry_after)

YieldedOf(page) == IF "list" \in DOMAIN page.body THEN page.body.list ELSE <<page.body>>
RECURSIVE YieldedOfPages(_, _)
YieldedOfPages(pages, n) ==
    IF n = 0 THEN <<>> ELSE YieldedOfPages(pages, n - 1) \o YieldedOf(pages[n])

\* C22: with a page cap max_pages = n the GitHub paginator begins at most n
\* page fetches and returns the items of the pages it was sent, at most the
\* first n, also when page n carries a next link; with max_pages = None every
\* page it has gone on from carries a next link and the page it ends at
\* carries none.
C22_PageCap ==
    api = "gh" =>
        /\ pg_pc = "returned" => result = YieldedOfPages(pg_served, Len(pg_served))
        /\ IF pg_max_pages # None
           THEN /\ pg_page <= pg_max_pages
                /\ Len(pg_urls) <= pg_max_pages
                /\ Len(pg_served) <= pg_max_pages
                /\ (pg_pc = "returned" /\ Len(pg_served) < pg_max_pages) =>
                       ~CarriesNext(pg_served[Len(pg_served)])
           ELSE /\ \A i \in 1..(Len(pg_served) - 1) : CarriesNext(pg_served[i])
                /\ (pg_pc = "fetching" /\ Len(pg_served) >= 1) =>
                       CarriesNext(pg_served[Len(pg_served)])
                /\ pg_pc = "returned" => ~CarriesNext(pg_served[Len(pg_served)])

\* A fetch capped at two pages has returned the three items of its two pages,
\* although the second page carries a next link.
C22_Witness ==
    /\ api = "gh"
    /\ pg_call = "get_paginated"
    /\ pg_max_pages = 2
    /\ pg_pc = "returned"
    /\ Len(pg_served) = 2
    /\ CarriesNext(pg_served[2])
    /\ Len(result) = 3
    /\ pg_page = 2


\* C23: a Docker Hub get_repository(key, use_cache=False) never returns from
\* the cache: when it has returned it has issued a request and the cache holds
\* the fetched body under key with the call's time; and a
\* get_repository(key, use_cache=True) that follows it less than
\* cache_timeout_sec after that time returns the same body at once, without
\* a request.
C23_UseCacheFalseRefetches ==
    [][/\ (api' = "dh" /\ ~gr_use_cache' /\ gr_pc' \in {"returned", "raised"}) =>
              requests' > gr_requests'
       /\ (api' = "dh" /\ ~gr_use_cache' /\ gr_pc' = "returned") =>
              CacheGet(cached_repositories', gr_repo') =
                  [time |-> gr_curr_time', data |-> result']
       /\ (/\ api = "dh" /\ ~gr_use_cache /\ gr_pc = "returned"
           /\ gr_use_cache' /\ gr_repo' = gr_repo
           /\ gr_curr_time' # gr_curr_time \/ gr_pc' # gr_pc
           /\ gr_curr_time' - gr_curr_time < cache_timeout_sec * TicksPerSec) =>
              /\ gr_pc' = "returned"
              /\ result' = result
              /\ requests' = requests
              /\ mr_pc' = mr_pc]_vars

\* A use_cache=False call made while the key's entry was fresh has fetched and
\* has replaced the entry by a different body.
C23_Witness ==
    /\ api = "dh"
    /\ gr_pc = "returned"
    /\ ~gr_use_cache
    /\ gr_prev # NoEntry
    /\ Fresh(gr_curr_time, gr_prev.time)
    /\ requests = gr_requests + 1
    /\ result # gr_prev.data
    /\ CacheGet(cached_repositories, gr_repo) = [time |-> gr_curr_time, data |-> result]


\* C24: from the moment a run has read the snapshot file until its final
\* write the file on disk is the snapshot the run has read; a run that has
\* ended with an error before its write has left the file as the previous
\* snapshot.
C24_FileKeptUntilFinalWrite ==
    run_pc \in {"started", "listing", "loop", "calling", "reporting", "aborted"} =>
        file = old_stats

\* The second run's listing has failed with its request and all its retries; the
\* file is still the snapshot the first run wrote at its own time.
C24_Witness ==
    /\ run_pc = "aborted"
    /\ runs = 2
    /\ pg_pc = "raised"
    /\ requests = DefaultMaxRetries + 1
    /\ exc = "HTTPError"
    /\ file # NoSnapshot
    /\ file = old_stats
    /\ file.last_updated # T0


\* The sum of a field over the success records of a snapshot's repositories.
RECURSIVE SumOverRecords(_, _, _)
SumOverRecords(repositories, keys, field) ==
    IF keys = {} THEN 0
    ELSE LET k == CHOOSE x \in keys : TRUE
             r == repositories[k]
         IN  (IF "error" \in DOMAIN r THEN 0 ELSE Get(r, field, 0))
             + SumOverRecords(repositories, keys \ {k}, field)

\* C25: in the snapshot a run of the Docker Hub or GitHub script has written,
\* each total is the sum of its field over the success records of that
\* snapshot; an error entry adds nothing to a total.
C25_TotalsSumSuccessRecords ==
    (run_pc = "done" /\ script \in {"dockerhub", "github"}) =>
        \A i \in 1..Len(Calls(script)) :
            LET call == Calls(script)[i]
            IN  call.total # "" =>
                    file.totals[call.total] =
                        SumOverRecords(file.repositories, DOMAIN file.repositories,
                                       call.key)


\* The exceptions with which an HTTP fetch of the client ends.
FetchErrors == {"HTTPError", "RequestException", "ValueError"}

\* C26: in the snapshot a run of the GitHub script has written, a listed
\* repository none of whose HTTP fetches failed has a success record with
\* stars, forks, watchers, open_issues, description and last_updated; and
\* every accessor the loop is about to call is one the client provides.
C26_GitHubWritesSuccessRecords ==
    script = "github" =>
        /\ (run_pc = "loop" /\ idx <= Len(repos)) =>
               Calls(script)[step].method \in ClientMethods(api)
        /\ run_pc = "done" =>
               \A k \in DOMAIN file.repositories :
                   (k \notin DOMAIN failed \/ failed[k] \notin FetchErrors) =>
                       DOMAIN file.repositories[k] =
                           {"stars", "forks", "watchers", "open_issues", "description",
                            "last_updated"}


\* C27: no step of a get_repository / get_repo call that is fetching or ends
\* by raising changes the cache, and when the call has raised the entry of
\* its key is the entry the key had when the call began (none, if it had
\* none).
C27_RaisingFetchKeepsCache ==
    [][/\ gr_pc' \in {"fetching", "raised"} => cached_repositories' = cached_repositories
       /\ gr_pc' = "raised" => CacheGet(cached_repositories', gr_repo') = gr_prev']_vars

\* A call for a key whose entry had gone stale has raised; the stale entry is
\* still there, next to the entry of the other key.
C27_Witness ==
    /\ gr_pc = "raised"
    /\ gr_prev # NoEntry
    /\ ~Fresh(gr_curr_time, gr_prev.time)
    /\ CacheGet(cached_repositories, gr_repo) = gr_prev
    /\ DOMAIN cached_repositories = Repos
    /\ requests > gr_requests


\* ------------------------------------------- a listing and the accessors
\* A caller that lists the repositories of the owner and asks for single
\* repositories, before and after a listing. The server's listing may hold an
\* item without a name.
ListingResults(a) ==
    LET A(n) == ListedBody(a, <<Owner, "a">>, n)
        B(n) == ListedBody(a, <<Owner, "b">>, n)
        Nameless == IF a = "gh" THEN [stargazers_count |-> 5]
                    ELSE [namespace |-> Owner, pull_count |-> 5]
    IN  {<<A(5)>>, <<B(6), Nameless, A(6)>>}
ListingPagesFor(a, url) ==
    {page \in PagesFor(a, url, ListingResults(a)) :
        /\ page.headers = NoHeaders
        /\ a # "gh" => ("next" \in DOMAIN page.body /\ page.body.next = NoUrl)}

ListingCall ==
    /\ PaginateBegin("get_all_repos", None, 0)
    /\ requests < MaxRequests
    /\ UNCHANGED <<cacheVars, runVars, callerVars>>

ListingAttempt ==
    /\ requests < MaxRequests
    /\ PageAttemptOf(ListingPagesFor(api, endpoint), PageReplies(api))

ListingAccessor ==
    /\ pg_pc \in {"idle", "returned"}
    /\ \E repo \in Repos, delay \in (IF pg_pc = "returned" THEN CacheDelays ELSE {0}) :
           GetRepository(repo, TRUE, delay)
    /\ gr_pc' = "fetching" => requests < MaxRequests
    /\ UNCHANGED <<pageVars, runVars, callerVars>>

ListingNext ==
    \/ ListingCall
    \/ ListingAttempt
    \/ PaginatePage /\ UNCHANGED <<cacheVars, runVars, callerVars>>
    \/ PaginateRaise /\ UNCHANGED <<cacheVars, runVars, callerVars>>
    \/ ListingAccessor
    \/ CacheAttempt
    \/ GetRepositoryStore /\ UNCHANGED <<pageVars, runVars, callerVars>>
    \/ GetRepositoryRaise /\ UNCHANGED <<pageVars, runVars, callerVars>>

ListingSpec == Init /\ [][ListingNext]_vars

\* The positions of the listing's items that have a name (and a namespace),
\* and whether a key is that of one of them.
NamedItems == {i \in 1..Len(pg_items) : Cacheable(api, pg_items[i])}
ListedKey(key) == \E i \in NamedItems : CacheKey(api, pg_items[i]) = key
\* No get_repository / get_repo call was made since the listing began.
NoCallSinceListing == gr_requests <= pg_requests /\ gr_pc # "fetching"

\* C28: a listing that has ended has issued a request, whatever the cache
\* held; when it has returned, every item it returned that has a name (and,
\* for Docker Hub, a namespace) is in the cache under its full key with the
\* time the listing ended; and a get_repository / get_repo call for a listed
\* key made after it finds an entry and, when made less than
\* cache_timeout_sec after the entry's time, returns without a request.
C28_ListingFetchesAndCaches ==
    pg_call = "get_all_repos" =>
        /\ pg_pc \in {"returned", "raised"} => requests > pg_requests
        /\ (pg_pc = "returned" /\ NoCallSinceListing) =>
               \A i \in NamedItems :
                   LET entry == CacheGet(cached_repositories, CacheKey(api, pg_items[i]))
                   IN  /\ entry.time = now
                       /\ \E j \in NamedItems :
                              /\ CacheKey(api, pg_items[j]) = CacheKey(api, pg_items[i])
                              /\ entry.data = pg_items[j]
        /\ (/\ pg_pc = "returned" /\ ~NoCallSinceListing /\ ListedKey(gr_repo)) =>
               /\ gr_prev # NoEntry
               /\ Fresh(gr_curr_time, gr_prev.time) =>
                      (gr_pc = "returned" /\ requests = gr_requests /\ result = gr_prev.data)

\* A second listing, made while the cache was full, has fetched again and has
\* returned two named items and one without a name; then a call for a listed
\* key, made one tick less than the timeout later, has returned the listed
\* body without a request.
C28_Witness ==
    /\ pg_call = "get_all_repos"
    /\ pg_pc = "returned"
    /\ Len(pg_items) = 3
    /\ Cardinality(NamedItems) = 2
    /\ pg_requests >= 1
    /\ requests = pg_requests + 1
    /\ gr_pc = "returned"
    /\ gr_requests = requests
    /\ gr_curr_time - gr_prev.time = cache_timeout_sec * TicksPerSec - 1
    /\ gr_prev.data \in {pg_items[i] : i \in NamedItems}
    /\ result = gr_prev.data
    /\ DOMAIN cached_repositories = Repos


\* C29: when a run of the Docker Hub or GitHub script has ended, with its
\* snapshot written or with an exception, the session of the client it
\* created is closed.
C29_RunClosesSession ==
    (script \in {"dockerhub", "github"} /\ run_pc \in {"done", "aborted"}) =>
        session = "closed"


\* The history of a snapshot document; none is an empty one.
HistoryOf(doc) == IF doc # NoSnapshot /\ "history" \in DOMAIN doc THEN doc.history ELSE <<>>

\* C30: the history in the snapshot a run of the analytics script has written
\* has at most 100 entries; its last entry is that of the run, with the run's
\* timestamp, number of blog posts and total of page views; and the entries
\* before it are the most recent entries of the history the run found, as
\* many as fit, in their order.
C30_HistoryBounded ==
    (script = "analytics" /\ run_pc = "done") =>
        LET h == file.history
            old == HistoryOf(old_stats)
            kept == Len(h) - 1
        IN  /\ Len(h) >= 1
            /\ Len(h) <= 100
            /\ h[Len(h)] = [timestamp |-> file.last_updated,
                            total_blog_posts |-> Cardinality(DOMAIN file.blog_posts),
                            total_page_views |-> file.totals.total_page_views]
            /\ file.last_updated = IsoFormat(now)
            /\ kept = (IF Len(old) < 100 THEN Len(old) ELSE 99)
            /\ \A i \in 1..kept : h[i] = old[Len(old) - kept + i]

\* The second run on a full history has written: the history still has 100
\* entries, the last two are those of the two runs and the first is the third
\* of the history the first run found.
C30_Witness ==
    /\ script = "analytics"
    /\ run_pc = "done"
    /\ runs = 2
    /\ Len(file.history) = 100
    /\ Len(HistoryOf(old_stats)) = 100
    /\ file.history[1] = [timestamp |-> <<"past", 3>>, total_blog_posts |-> 1,
                          total_page_views |-> 2]
    /\ file.history[99].timestamp = IsoFormat(ScheduledStart(1))
    /\ file.history[100].timestamp = IsoFormat(ScheduledStart(2))


\* ------------------------------------------ the Google Analytics client
\* The date ranges a caller asks for: None (all time) or a number of days.
DateRanges == {None, 7, 30}

\* if date_range_days: start_date = (now - timedelta(days = date_range_days))
\* else: start_date = "2020-10-14"
StartDate(date_range_days) ==
    IF date_range_days # None /\ date_range_days # 0
    THEN <<"days_ago", date_range_days>>
    ELSE <<"2020-10-14">>

\* What client.run_report may answer for a date range that starts at
\* start_date: the page views of that range. The longer the range, the more
\* views; a property without traffic reports no page.
RunReportResults(start_date) ==
    LET a == <<"blog", "a">>
    IN  IF start_date = <<"2020-10-14">> THEN Reports
        ELSE {<<>>, [p \in {a} |-> IF start_date[2] = 7 THEN 1 ELSE 2]}

\* _is_cache_valid at time t
IsCacheValid(timestamp, t) ==
    /\ timestamp # None
    /\ t - timestamp < cache_timeout_sec * TicksPerSec

\* if self._is_cache_valid() and self.cached_page_views: return the cache
ReturnsCached(timestamp, cached, t) ==
    IsCacheValid(timestamp, t) /\ cached # <<>>

\* How long run_report takes, in ticks, and the pauses between two calls.
ReportDurations == {0, 1}
ReportDelays == {0, cache_timeout_sec * TicksPerSec - 1, cache_timeout_sec * TicksPerSec}
\* The time the calls on one client are followed up to.
ReportHorizon == StartTime + MaxRequests * cache_timeout_sec * TicksPerSec

\* get_all_page_views(date_range_days), delay ticks after the previous call
\* ended, up to the cached return or to run_report. The pause of
\* _sleep_between_requests, 0.1 s at most, is shorter than a tick.
GetAllPageViews(date_range_days, delay) ==
    /\ api = "ga"
    /\ ga_pc \in {"idle", "returned", "raised"}
    /\ now + delay <= ReportHorizon
    /\ now' = now + delay
    /\ ga_days' = date_range_days
    /\ IF ReturnsCached(cache_timestamp, cached_page_views, now + delay)
       THEN /\ result' = cached_page_views
            /\ ga_pc' = "returned"
       ELSE /\ requests < MaxRequests
            /\ ga_pc' = "reporting"
            /\ UNCHANGED result
    /\ UNCHANGED <<api, last_request_time, rate_limit_remaining, rate_limit_reset,
                   cached_repositories, requestVars, historyVars, cacheVars, pageVars,
                   runVars, scopeVars, accVars, cached_page_views, cache_timestamp>>

\* response = self.client.run_report(request); the rows become page_views,
\* which is cached and returned.
RunReport ==
    /\ ga_pc = "reporting"
    /\ \E d \in ReportDurations, page_views \in RunReportResults(StartDate(ga_days)) :
           /\ now' = now + d
           /\ last_request_time' = now + d
           /\ cached_page_views' = page_views
           /\ cache_timestamp' = now + d
           /\ result' = page_views
    /\ requests' = requests + 1
    /\ ga_pc' = "returned"
    /\ UNCHANGED <<api, rate_limit_remaining, rate_limit_reset, cached_repositories,
                   requestVars, req_last_start, req_gap, call_requests, last_sleep,
                   last_reply, call_bare_429, cacheVars, pageVars, runVars, scopeVars,
                   accVars, ga_days>>

\* run_report raises: the exception is logged and raised again.
RunReportRaise ==
    /\ ga_pc = "reporting"
    /\ requests' = requests + 1
    /\ ga_pc' = "raised"
    /\ UNCHANGED <<clientVars, requestVars, req_last_start, req_gap, call_requests,
                   last_sleep, last_reply, call_bare_429, result, cacheVars, pageVars,
                   runVars, scopeVars, accVars, ga_days, cached_page_views,
                   cache_timestamp>>

ReportInit ==
    /\ api = "ga"
    /\ now = StartTime
    /\ last_request_time = 0
    /\ rate_limit_remaining = None
    /\ rate_limit_reset = None
    /\ cached_repositories = NoEntries
    /\ InitRequest
    /\ InitCache
    /\ InitPage
    /\ InitNoRun
    /\ InitCaller

ReportNext ==
    \/ \E date_range_days \in DateRanges, delay \in ReportDelays :
           GetAllPageViews(date_range_days, delay)
    \/ RunReport
    \/ RunReportRaise

ReportSpec == ReportInit /\ [][ReportNext]_vars

\* The start of the date range a caller means by date_range_days.
RequestedRange(date_range_days) ==
    IF date_range_days = None THEN <<"2020-10-14">> ELSE <<"days_ago", date_range_days>>

\* C31: the mapping get_all_page_views(date_range_days = d) has returned, from
\* the cache or from a new report, holds the page views of a report for the
\* date range d of that call.
C31_PageViewsOfRequestedRange ==
    (api = "ga" /\ ga_pc = "returned") =>
        result \in RunReportResults(RequestedRange(ga_days))

====
